---- MODULE Spec2Model ----
(***************************************************************************)
(* Model of the resilience layer of betterbahn-split-api: the shared Redis *)
(* connection (lib/redis.ts), the per-client rate limiter                  *)
(* (lib/ratelimit.ts) and the response cache (lib/cache.ts).               *)
(*                                                                         *)
(* Ten specifications share the variables:                                 *)
(*   Spec       concurrent rateLimit() callers against the shared store    *)
(*   CacheSpec  withCache() calls against a store that faults and recovers *)
(*   HitSpec    withCache() calls against a store that stays available,    *)
(*              called also with params that JSON.stringify rejects        *)
(*   KeySpec    the pure cache-key derivation applied to bounded inputs    *)
(*   RequestSpec  one request through getClientIP(), rateLimit() and the   *)
(*              rate-limit middlewares                                     *)
(*   InvSpec    invalidateCache() calls against a store that faults        *)
(*   ClientSpec the client objects behind getRedisClient() and             *)
(*              closeRedisClient(), with two concurrent callers            *)
(*   FlightSpec two withCache() calls in flight on the same key            *)
(*   LiveSpec   InvSpec with the steps of the calls taken fairly, for the  *)
(*              termination of invalidateCache() and getCacheStats()       *)
(*   RetrySpec  the client objects with the attempts and waits of their    *)
(*              reconnection policy (retryStrategy)                        *)
(***************************************************************************)
EXTENDS Integers, Sequences, FiniteSets, TLC

\* ------------------------------------------------------------------ bounds
\* Largest rate-limit `limit` a configuration may carry.
MaxLimit == 2
\* Largest rate-limit `window` (seconds) a configuration may carry.
MaxWindow == 2
\* Largest number of rateLimit() calls started for one identity in one run
\* of its counter (caps the counter).
MaxCalls == 4

\* The callers (concurrent requests) and the client identities.
Procs == {"r1", "r2"}
Identities == {"1.2.3.4"}

Max(a, b) == IF a >= b THEN a ELSE b
Min(a, b) == IF a <= b THEN a ELSE b
Range(f) == {f[i] : i \in DOMAIN f}

VARIABLES
    \* ---- lib/redis.ts and the store behind it
    redisUrl,      \* process.env.REDIS_URL is set
    redisUp,       \* the store answers commands
    redisClient,   \* module-level handle: "null" | "ready" | "down"
    \* ---- rate limiter: the store's records  ratelimit:<prefix>:<ip>
    rl,            \* [Identities -> [count, ttl]], count = 0: no such key
    limit, window, \* the RateLimitConfig of the route
    rpc,           \* position of each rateLimit() call
    rip,           \* its `ip` argument
    rres,          \* its returned RateLimitResult
    \* ---- history variables of the rate limiter
    rord,          \* ordinal of the call among the calls of its identity's run
    rfault,        \* the call met an unavailable store
    rclean,        \* the call was sequential, fault-free and expiry-free
    seqNo,         \* [Identities -> calls started in the current run]
    clean,         \* [Identities -> the current run is sequential so far]
    log,           \* [Identities -> results of the batches since the key was created]
    \* ---- the clock read by Date.now(), in milliseconds
    now,
    \* ---- two derivations of a cache key (KeySpec)
    kpc,           \* "first" | "pick" | "second" | "done"
    kPrefix,       \* config.keyPrefix ("" when not given)
    kP1, kP2,      \* the params of the first and of the second derivation
    kRel,          \* how kP2 was obtained from kP1
    kKey1, kKey2,  \* the derived keys
    kT1,           \* Date.now() at the first derivation
    \* ---- response cache (CacheSpec)
    cache,         \* the store's entries: key -> [text, ttl, by, ps]
    cfg,           \* the CacheConfig of the route
    wc,            \* each withCache() call: position, locals and history
    \* ---- one request through the rate-limit middleware (RequestSpec)
    rq,            \* headers, identity, batch reply, result, response
    \* ---- invalidateCache, getCacheStats (InvSpec, LiveSpec)
    inv,           \* the call: position, cursor, collected keys, result
    \* ---- lib/redis.ts in detail (ClientSpec, RetrySpec)
    objs,          \* the Redis objects created so far: their status
    ref,           \* the module-level redisClient: an index of objs, 0: null
    gcl            \* each getRedisClient()/closeRedisClient() caller

connVars == <<redisUrl, redisUp, redisClient>>
rlVars == <<rl, limit, window, rpc, rip, rres, rord, rfault, rclean, seqNo, clean, log>>
keyVars == <<kpc, kPrefix, kP1, kP2, kRel, kKey1, kKey2, kT1>>
cacheVars == <<cache, cfg, wc>>
auxVars == <<rq, inv, objs, ref, gcl>>
vars == <<connVars, rlVars, now, keyVars, cacheVars, auxVars>>

\* ------------------------------------------------- lib/redis.ts
\* getRedisClient() returns a handle: the held one when its status is
\* "ready", else a new connection, which needs REDIS_URL and a reachable
\* store; otherwise it throws.
GetRedisClientOk == redisClient = "ready" \/ (redisUrl /\ redisUp)
\* The module-level handle after getRedisClient().
GetRedisClientHandle ==
    IF redisClient = "ready" THEN "ready"
    ELSE IF ~redisUrl THEN redisClient
    ELSE IF redisUp THEN "ready"
    ELSE "null"
\* A command sent on a handle getRedisClient() returned succeeds when the
\* store answers and the handle is still connected; else it is rejected
\* (closed connection, command timeout, retries exhausted).
CommandOk == redisUp /\ redisClient = "ready"
\* isRedisAvailable(): getRedisClient() then ping(), any throw gives false.
IsRedisAvailable == GetRedisClientOk /\ redisUp

\* The store stops answering; the handle notices later (ConnClose).
ServerDown ==
    /\ redisUp
    /\ redisUp' = FALSE
    /\ UNCHANGED <<redisUrl, redisClient>>
ServerUp ==
    /\ ~redisUp
    /\ redisUp' = TRUE
    /\ UNCHANGED <<redisUrl, redisClient>>
\* The socket of the held handle closes: status leaves "ready".
ConnClose ==
    /\ ~redisUp /\ redisClient = "ready"
    /\ redisClient' = "down"
    /\ UNCHANGED <<redisUrl, redisUp>>
\* retryStrategy reconnects the held handle.
Reconnect ==
    /\ redisUp /\ redisClient = "down"
    /\ redisClient' = "ready"
    /\ UNCHANGED <<redisUrl, redisUp>>

\* ------------------------------------------------- lib/ratelimit.ts
NoResult == [allowed |-> TRUE, count |-> -1, limit |-> 0, resetTime |-> 0, remaining |-> 0]

\* A limiter that fails closed: the fault result rejects the request.
FailClosed(lim, win) ==
    [allowed |-> FALSE, count |-> 0, limit |-> lim, resetTime |-> win, remaining |-> 0]

\* The fail-open result of rateLimit().
FailOpen(lim, win) ==
    [allowed |-> TRUE, count |-> 0, limit |-> lim, resetTime |-> win, remaining |-> lim]

\* A read-modify-write increment that loses the second update.
IncrLost(c) == IF c = 1 THEN c ELSE c + 1

\* INCR on a counter (a missing key counts from 0).
Incr(c) == c + 1

\* A batch that sets the expiry only when it creates the record (a window
\* with a fixed boundary).
PipelineRecordFixedWindow(rec, win) ==
    [count |-> Incr(rec.count), ttl |-> IF rec.count = 0 THEN win ELSE rec.ttl]
\* A batch whose EXPIRE is left out.
PipelineRecordNoExpire(rec, win) == [count |-> Incr(rec.count), ttl |-> rec.ttl]

\* MULTI: INCR key; EXPIRE key window; TTL key; EXEC, executed by the store
\* as one unit.  Gives the record after the batch.
PipelineRecord(rec, win) == [count |-> Incr(rec.count), ttl |-> win]
\* The replies of the batch: <<incr, expire, ttl>>.
PipelineResults(rec, win) ==
    <<PipelineRecord(rec, win).count, 1, PipelineRecord(rec, win).ttl>>

\* A decision that rejects the request which reaches the limit.
DecisionStrict(results, lim, win) ==
    LET count == results[1]
        t == results[3]
    IN [allowed |-> count < lim,
        count |-> count,
        limit |-> lim,
        resetTime |-> IF t > 0 THEN t ELSE win,
        remaining |-> Max(0, lim - count)]

\* The decision taken from the batch's replies.
Decision(results, lim, win) ==
    LET count == results[1]
        t == results[3]
    IN [allowed |-> count <= lim,
        count |-> count,
        limit |-> lim,
        resetTime |-> IF t > 0 THEN t ELSE win,
        remaining |-> Max(0, lim - count)]

InFlight(i) == {q \in Procs : rpc[q] \in {"probe", "client", "exec"} /\ rip[q] = i}

\* rateLimit(ip, config) is entered.
RLStart(p, i) ==
    /\ rpc[p] = "idle"
    /\ LET fresh == rl[i].count = 0 /\ InFlight(i) = {}
       IN /\ fresh \/ seqNo[i] < MaxCalls
          /\ seqNo' = [seqNo EXCEPT ![i] = IF fresh THEN 1 ELSE @ + 1]
          /\ clean' = [clean EXCEPT ![i] = IF fresh THEN TRUE ELSE @ /\ InFlight(i) = {}]
          /\ rord' = [rord EXCEPT ![p] = IF fresh THEN 1 ELSE seqNo[i] + 1]
    /\ rpc' = [rpc EXCEPT ![p] = "probe"]
    /\ rip' = [rip EXCEPT ![p] = i]
    /\ rres' = [rres EXCEPT ![p] = NoResult]
    /\ rfault' = [rfault EXCEPT ![p] = FALSE]
    /\ rclean' = [rclean EXCEPT ![p] = FALSE]
    /\ UNCHANGED <<connVars, rl, limit, window, log>>

\* The call returns the fail-open result (store unavailable, or the catch).
RLFailOpen(p) ==
    /\ rpc' = [rpc EXCEPT ![p] = "done"]
    /\ rres' = [rres EXCEPT ![p] = FailOpen(limit, window)]
    /\ rfault' = [rfault EXCEPT ![p] = TRUE]
    /\ rclean' = [rclean EXCEPT ![p] = FALSE]
    /\ clean' = [clean EXCEPT ![rip[p]] = FALSE]
    /\ UNCHANGED <<rl, log>>

\* if (!(await isRedisAvailable())) return fail-open
RLProbe(p) ==
    /\ rpc[p] = "probe"
    /\ redisClient' = GetRedisClientHandle
    /\ IF IsRedisAvailable
       THEN /\ rpc' = [rpc EXCEPT ![p] = "client"]
            /\ UNCHANGED <<rl, rres, rfault, rclean, clean, log>>
       ELSE RLFailOpen(p)
    /\ UNCHANGED <<redisUrl, redisUp, limit, window, rip, rord, seqNo>>

\* const client = await getRedisClient()
RLGetClient(p) ==
    /\ rpc[p] = "client"
    /\ redisClient' = GetRedisClientHandle
    /\ IF GetRedisClientOk
       THEN /\ rpc' = [rpc EXCEPT ![p] = "exec"]
            /\ UNCHANGED <<rl, rres, rfault, rclean, clean, log>>
       ELSE RLFailOpen(p)
    /\ UNCHANGED <<redisUrl, redisUp, limit, window, rip, rord, seqNo>>

\* const results = await pipeline.exec(), then the decision
RLExec(p) ==
    /\ rpc[p] = "exec"
    /\ IF CommandOk
       THEN LET i == rip[p]
                d == Decision(PipelineResults(rl[i], window), limit, window)
            IN /\ rl' = [rl EXCEPT ![i] = PipelineRecord(rl[i], window)]
               /\ rres' = [rres EXCEPT ![p] = d]
               /\ log' = [log EXCEPT ![i] = Append(@, d)]
               /\ rclean' = [rclean EXCEPT ![p] = clean[i]]
               /\ rpc' = [rpc EXCEPT ![p] = "done"]
               /\ UNCHANGED <<rfault, clean>>
       ELSE RLFailOpen(p)
    /\ UNCHANGED <<connVars, limit, window, rip, rord, seqNo>>

\* The caller takes the result.
RLReturn(p) ==
    /\ rpc[p] = "done"
    /\ rpc' = [rpc EXCEPT ![p] = "idle"]
    /\ rres' = [rres EXCEPT ![p] = NoResult]
    /\ rord' = [rord EXCEPT ![p] = 0]
    /\ rfault' = [rfault EXCEPT ![p] = FALSE]
    /\ rclean' = [rclean EXCEPT ![p] = FALSE]
    /\ UNCHANGED <<connVars, rl, limit, window, rip, seqNo, clean, log>>

\* One second passes in the store: every expiry counts down, a record whose
\* expiry reaches 0 is removed.
ExpireRecord(rec) ==
    IF rec.count = 0 THEN rec
    ELSE IF rec.ttl <= 1 THEN [count |-> 0, ttl |-> 0]
    ELSE [rec EXCEPT !.ttl = @ - 1]
RLTick ==
    /\ \E i \in Identities : rl[i].count > 0
    /\ rl' = [i \in Identities |-> ExpireRecord(rl[i])]
    /\ log' = [i \in Identities |-> IF ExpireRecord(rl[i]).count = 0 THEN <<>> ELSE log[i]]
    /\ clean' = [i \in Identities |->
                   IF rl[i].count > 0 /\ ExpireRecord(rl[i]).count = 0 /\ InFlight(i) # {}
                   THEN FALSE ELSE clean[i]]
    /\ UNCHANGED <<connVars, limit, window, rpc, rip, rres, rord, rfault, rclean, seqNo>>

ConnInit ==
    /\ redisUrl \in BOOLEAN
    /\ redisUp \in BOOLEAN
    /\ redisClient = "null"

RLInit ==
    /\ rl = [i \in Identities |-> [count |-> 0, ttl |-> 0]]
    /\ limit \in 1..MaxLimit
    /\ window \in 1..MaxWindow
    /\ rpc = [p \in Procs |-> "idle"]
    /\ rip = [p \in Procs |-> "1.2.3.4"]
    /\ rres = [p \in Procs |-> NoResult]
    /\ rord = [p \in Procs |-> 0]
    /\ rfault = [p \in Procs |-> FALSE]
    /\ rclean = [p \in Procs |-> FALSE]
    /\ seqNo = [i \in Identities |-> 0]
    /\ clean = [i \in Identities |-> TRUE]
    /\ log = [i \in Identities |-> <<>>]

\* The parts of the state a specification does not use stay as they start.
ConnIdle == redisUrl = FALSE /\ redisUp = FALSE /\ redisClient = "null"
RLIdle ==
    /\ rl = [i \in Identities |-> [count |-> 0, ttl |-> 0]]
    /\ limit = 1 /\ window = 1
    /\ rpc = [p \in Procs |-> "idle"]
    /\ rip = [p \in Procs |-> "1.2.3.4"]
    /\ rres = [p \in Procs |-> NoResult]
    /\ rord = [p \in Procs |-> 0]
    /\ rfault = [p \in Procs |-> FALSE]
    /\ rclean = [p \in Procs |-> FALSE]
    /\ seqNo = [i \in Identities |-> 0]
    /\ clean = [i \in Identities |-> TRUE]
    /\ log = [i \in Identities |-> <<>>]
KeyIdle ==
    /\ kpc = "off" /\ kPrefix = <<>> /\ kP1 = <<>> /\ kP2 = <<>>
    /\ kRel = "none" /\ kKey1 = <<>> /\ kKey2 = <<>> /\ kT1 = 0

CacheIdle ==
    /\ cache = <<>>
    /\ cfg = [ttl |-> 1, keyPrefix |-> <<>>, maxValueSize |-> 0]
    /\ wc = <<>>
AuxIdle == rq = <<>> /\ inv = <<>> /\ objs = <<>> /\ ref = 0 /\ gcl = <<>>

Init == ConnInit /\ RLInit /\ now = 0 /\ KeyIdle /\ CacheIdle /\ AuxIdle

Env ==
    \/ ServerDown /\ UNCHANGED <<rlVars, now, keyVars, cacheVars, auxVars>>
    \/ ServerUp /\ UNCHANGED <<rlVars, now, keyVars, cacheVars, auxVars>>
    \/ ConnClose /\ UNCHANGED <<rlVars, now, keyVars, cacheVars, auxVars>>
    \/ Reconnect /\ UNCHANGED <<rlVars, now, keyVars, cacheVars, auxVars>>

RLNext ==
    \/ \E p \in Procs, i \in Identities : RLStart(p, i)
    \/ \E p \in Procs : RLProbe(p)
    \/ \E p \in Procs : RLGetClient(p)
    \/ \E p \in Procs : RLExec(p)
    \/ \E p \in Procs : RLReturn(p)
    \/ RLTick

Next ==
    \/ Env
    \/ RLNext /\ UNCHANGED <<now, keyVars, cacheVars, auxVars>>

Spec == Init /\ [][Next]_vars

\* ------------------------------------------------- lib/cache.ts: customHash
\* Strings are sequences of UTF-16 code units.  A 32-bit integer is a pair
\* <<hi, lo>> of 16-bit halves of its two's-complement bit pattern.
W16 == 65536

RECURSIVE Xor16(_, _)
\* Bitwise exclusive or of two values in 0..65535.
Xor16(a, b) ==
    IF a = 0 THEN b
    ELSE IF b = 0 THEN a
    ELSE (((a % 2) + (b % 2)) % 2) + (2 * Xor16(a \div 2, b \div 2))

\* The sign bit of a 32-bit pattern.
IsNeg32(u) == u[1] >= 32768
\* Two's-complement negation of a 32-bit pattern (mod 2^32).
Neg32(u) ==
    IF u[2] = 0 THEN <<(W16 - u[1]) % W16, 0>>
    ELSE <<W16 - 1 - u[1], W16 - u[2]>>
\* Math.abs of the signed value of a pattern, as a magnitude <<hi, lo>>
\* (2^31 is <<32768, 0>>).
Abs32(u) == IF IsNeg32(u) THEN Neg32(u) ELSE u

\* djb2 = (djb2 << 5) + djb2 + c; djb2 = djb2 & djb2
Djb2Step(u, c) ==
    LET lo == u[2] * 33 + c
        hi == u[1] * 33 + (lo \div W16)
    IN <<hi % W16, lo % W16>>

\* The spacing of the doubles around a product whose bits above 2^32 are h.
Ulp(h) ==
    IF h < 2097152 THEN 1
    ELSE IF h < 4194304 THEN 2
    ELSE IF h < 8388608 THEN 4
    ELSE 8

\* fnv *= 16777619 in double arithmetic, then fnv & fnv: the exact product
\* of the signed value is rounded to the nearest double (ties to even) and
\* reduced to 32 bits.
FnvMul(u) ==
    LET m == Abs32(u)
        L == m[2] * 403
        M == m[1] * 403 + m[2] * 256
        d0 == L % W16
        t1 == (M % W16) + (L \div W16)
        d1 == t1 % W16
        h == m[1] * 256 + (M \div W16) + (t1 \div W16)
        q == Ulp(h)
        r == d0 % q
        up == (2 * r > q) \/ (2 * r = q /\ ((d0 \div q) % 2 = 1))
        e0 == (d0 - r) + (IF up THEN q ELSE 0)
        lo == e0 % W16
        hi == (d1 + (e0 \div W16)) % W16
    IN IF IsNeg32(u) THEN Neg32(<<hi, lo>>) ELSE <<hi, lo>>

\* fnv ^= c; fnv *= 16777619; fnv = fnv & fnv
FnvStep(u, c) == FnvMul(<<u[1], Xor16(u[2], c)>>)

\* 2166136261 = 0x811C9DC5
FnvSeed == <<33052, 40389>>

RECURSIVE Djb2(_, _, _)
Djb2(str, i, u) ==
    IF i > Len(str) THEN u
    ELSE LET v == Djb2Step(u, str[i])
         IN IF v[1] >= 0 THEN Djb2(str, i + 1, v) ELSE v

RECURSIVE Fnv1a(_, _, _)
Fnv1a(str, i, u) ==
    IF i > Len(str) THEN u
    ELSE LET v == FnvStep(u, str[i])
         IN IF v[1] >= 0 THEN Fnv1a(str, i + 1, v) ELSE v

\* A digit of base 36 as a code unit: 0-9, a-z.
Digit36(d) == IF d < 10 THEN 48 + d ELSE 87 + d

RECURSIVE ToString36(_)
\* Number.prototype.toString(36) of a magnitude <<hi, lo>>.
ToString36(m) ==
    LET qh == m[1] \div 36
        t == (m[1] % 36) * W16 + m[2]
    IN IF m[1] = 0 /\ m[2] < 36 THEN <<Digit36(m[2])>>
       ELSE Append(ToString36(<<qh, t \div 36>>), Digit36(t % 36))

\* A hash text left unpadded.
PadStartForgotten(str, n, fill) == str

RECURSIVE PadStart(_, _, _)
\* String.prototype.padStart(n, fill) with a one-unit fill.
PadStart(str, n, fill) ==
    IF Len(str) >= n THEN str ELSE PadStart(<<fill>> \o str, n, fill)

\* customHash(str): djb2 and fnv1a, Math.abs of each, xor, base 36, padded.
customHash(str) ==
    LET djb2 == Djb2(str, 1, <<0, 5381>>)
        fnv == Fnv1a(str, 1, FnvSeed)
        a == Abs32(djb2)
        \* with no character the seed 2166136261 was never reduced to 32 bits:
        \* Math.abs leaves it and the xor takes its bit pattern
        b == IF Len(str) = 0 THEN FnvSeed ELSE Abs32(fnv)
        combined == <<Xor16(a[1], b[1]), Xor16(a[2], b[2])>>
        text == IF IsNeg32(combined)
                THEN <<45>> \o ToString36(Neg32(combined))
                ELSE ToString36(combined)
    IN PadStart(text, 8, 48)

\* ------------------------------------------------- lib/cache.ts: cache keys
\* A parameter object is the sequence of its entries [k, val] in insertion
\* order, with distinct names k.  A value is [t, v]: t its JavaScript type
\* and v its JSON text ("str": the characters, "num": the decimal digits).
StrBetterbahn == <<98, 101, 116, 116, 101, 114, 98, 97, 104, 110, 58>>
StrDefault == <<100, 101, 102, 97, 117, 108, 116>>
StrJourneys == <<106, 111, 117, 114, 110, 101, 121, 115>>
StrApi == <<97, 112, 105>>

RECURSIVE Dec(_)
\* String(n) of a natural number.
Dec(n) == IF n < 10 THEN <<48 + n>> ELSE Append(Dec(n \div 10), 48 + (n % 10))

RECURSIVE LexLess(_, _)
\* a < b as Array.prototype.sort() compares strings: by code units.
LexLess(a, b) ==
    IF Len(b) = 0 THEN FALSE
    ELSE IF Len(a) = 0 THEN TRUE
    ELSE IF Head(a) # Head(b) THEN Head(a) < Head(b)
    ELSE LexLess(Tail(a), Tail(b))

\* A property name that is an array index ("0", "9", "10"): such properties
\* are enumerated first, in ascending numeric order.
IsIndexKey(k) ==
    /\ Len(k) \in 1..9
    /\ \A i \in 1..Len(k) : k[i] \in 48..57
    /\ Len(k) = 1 \/ k[1] # 48
RECURSIVE NumValue(_)
NumValue(k) == IF Len(k) = 0 THEN 0 ELSE (10 * NumValue(SubSeq(k, 1, Len(k) - 1))) + (k[Len(k)] - 48)

\* Insert a name into a sequence ordered by Before.
RECURSIVE InsertBy(_, _, _)
InsertBy(Before(_, _), k, ks) ==
    IF Len(ks) = 0 THEN <<k>>
    ELSE IF Before(k, Head(ks)) THEN <<k>> \o ks
    ELSE <<Head(ks)>> \o InsertBy(Before, k, Tail(ks))
RECURSIVE SortBy(_, _)
SortBy(Before(_, _), ks) ==
    IF Len(ks) = 0 THEN <<>> ELSE InsertBy(Before, Head(ks), SortBy(Before, Tail(ks)))

SelectKeys(ks, Test(_)) == SelectSeq(ks, Test)

NumLess(a, b) == NumValue(a) < NumValue(b)
NotIndexKey(k) == ~IsIndexKey(k)
\* The order in which an object reports its own properties, given the order
\* in which they were added.
PropertyOrder(ks) ==
    SortBy(NumLess, SelectKeys(ks, IsIndexKey)) \o SelectKeys(ks, NotIndexKey)

\* Object.keys(params)
ObjectKeys(params) == PropertyOrder([i \in 1..Len(params) |-> params[i].k])
\* params[key]
ValueOf(params, k) == (CHOOSE i \in 1..Len(params) : params[i].k = k)
ParamValue(params, k) == params[ValueOf(params, k)].val

\* A derivation that forgets to sort.
SortedKeysForgotten(params) == ObjectKeys(params)
\* Object.keys(params).sort()
SortedKeys(params) == SortBy(LexLess, ObjectKeys(params))

\* value !== undefined && typeof value !== "function" && typeof value !== "symbol"
Kept(val) == val.t \notin {"undefined", "function", "symbol"}

\* The names of cleanParams, in the order the object reports them.
CleanKeys(params) ==
    LET keep(k) == Kept(ParamValue(params, k))
    IN PropertyOrder(SelectKeys(SortedKeys(params), keep))

\* JSON.stringify throws on a BigInt.
StringifyThrows(params) ==
    \E k \in Range(CleanKeys(params)) : ParamValue(params, k).t = "bigint"

\* JSON text of a value.
JsonValue(val) == IF val.t = "str" THEN <<34>> \o val.v \o <<34>> ELSE val.v

RECURSIVE JsonMembers(_, _)
JsonMembers(params, ks) ==
    IF Len(ks) = 0 THEN <<>>
    ELSE <<34>> \o Head(ks) \o <<34, 58>> \o JsonValue(ParamValue(params, Head(ks)))
         \o (IF Len(ks) > 1 THEN <<44>> ELSE <<>>) \o JsonMembers(params, Tail(ks))
\* JSON.stringify(cleanParams)
ParamString(params) == <<123>> \o JsonMembers(params, CleanKeys(params)) \o <<125>>

\* generateCacheKey(endpoint, params), with t the value of Date.now().
generateCacheKey(endpoint, params, t) ==
    IF StringifyThrows(params)
    THEN StrBetterbahn \o endpoint \o <<58>> \o customHash(endpoint \o <<45>> \o Dec(t))
    ELSE StrBetterbahn \o endpoint \o <<58>> \o customHash(ParamString(params))

\* The cache key withCache() derives.
CacheKey(key, keyPrefix, params, t) ==
    IF Len(ObjectKeys(params)) > 0
    THEN generateCacheKey(key, params, t)
    ELSE StrBetterbahn \o (IF Len(keyPrefix) > 0 THEN keyPrefix ELSE StrDefault) \o <<58>> \o key

\* ------------------------------------------------- KeySpec
\* Largest number of entries of a parameter object.
MaxParams == 2
\* Largest value of the clock.
MaxNow == 1

\* Parameter names "a", "b", "9" and values "A", undefined, a function,
\* a symbol, a BigInt.
PKeys == {<<97>>, <<98>>, <<57>>}
PVals == {[t |-> "str", v |-> <<65>>], [t |-> "undefined", v |-> <<>>],
          [t |-> "function", v |-> <<>>], [t |-> "symbol", v |-> <<>>],
          [t |-> "bigint", v |-> <<>>]}
Entries == {[k |-> k, val |-> v] : k \in PKeys, v \in PVals}
DistinctKeys(ps) == \A i, j \in 1..Len(ps) : ps[i].k = ps[j].k => i = j
ParamSets ==
    {ps \in UNION {[1..n -> Entries] : n \in 0..MaxParams} : DistinctKeys(ps)}
Prefixes == {<<>>, StrApi}

\* The same entries in every order.
Reorderings(ps) ==
    {[i \in 1..Len(ps) |-> ps[f[i]]] :
        f \in {g \in [1..Len(ps) -> 1..Len(ps)] : \A i, j \in 1..Len(ps) : g[i] = g[j] => i = j}}
\* ps with the entry e added at position i.
InsertAt(ps, i, e) == SubSeq(ps, 1, i - 1) \o <<e>> \o SubSeq(ps, i, Len(ps))

KInit ==
    /\ kpc = "first"
    /\ kPrefix \in Prefixes
    /\ kP1 \in ParamSets
    /\ kP2 = <<>> /\ kRel = "none" /\ kKey1 = <<>> /\ kKey2 = <<>> /\ kT1 = 0
    /\ now = 0

\* withCache("journeys", config, fetchFn, kP1) derives its key.
KDeriveFirst ==
    /\ kpc = "first"
    /\ kKey1' = CacheKey(StrJourneys, kPrefix, kP1, now)
    /\ kT1' = now
    /\ kpc' = "pick"
    /\ UNCHANGED <<kPrefix, kP1, kP2, kRel, kKey2, now>>

\* The second call passes the same entries in another order.
KReorder ==
    /\ kpc = "pick"
    /\ \E ps \in Reorderings(kP1) \ {kP1} : kP2' = ps
    /\ kRel' = "reordered"
    /\ kpc' = "second"
    /\ UNCHANGED <<kPrefix, kP1, kKey1, kKey2, kT1, now>>

\* The second call passes one more entry, whose value is undefined, a
\* function or a symbol.
KExtra ==
    /\ kpc = "pick"
    /\ Len(kP1) < MaxParams + 1
    /\ \E i \in 1..(Len(kP1) + 1), e \in Entries :
          /\ ~Kept(e.val)
          /\ DistinctKeys(InsertAt(kP1, i, e))
          /\ kP2' = InsertAt(kP1, i, e)
    /\ kRel' = "extra"
    /\ kpc' = "second"
    /\ UNCHANGED <<kPrefix, kP1, kKey1, kKey2, kT1, now>>

\* The second call passes the very same params.
KSame ==
    /\ kpc = "pick"
    /\ kP2' = kP1
    /\ kRel' = "same"
    /\ kpc' = "second"
    /\ UNCHANGED <<kPrefix, kP1, kKey1, kKey2, kT1, now>>

\* Time passes between the two calls.
KClock ==
    /\ kpc = "pick"
    /\ now < MaxNow
    /\ now' = now + 1
    /\ UNCHANGED keyVars

\* The second withCache("journeys", config, fetchFn, kP2) derives its key.
KDeriveSecond ==
    /\ kpc = "second"
    /\ kKey2' = CacheKey(StrJourneys, kPrefix, kP2, now)
    /\ kpc' = "done"
    /\ UNCHANGED <<kPrefix, kP1, kP2, kRel, kKey1, kT1, now>>

KeyInit == ConnIdle /\ RLIdle /\ KInit /\ CacheIdle /\ AuxIdle
KeyNext ==
    \/ KDeriveFirst /\ UNCHANGED <<connVars, rlVars, cacheVars, auxVars>>
    \/ KReorder /\ UNCHANGED <<connVars, rlVars, cacheVars, auxVars>>
    \/ KExtra /\ UNCHANGED <<connVars, rlVars, cacheVars, auxVars>>
    \/ KSame /\ UNCHANGED <<connVars, rlVars, cacheVars, auxVars>>
    \/ KClock /\ UNCHANGED <<connVars, rlVars, cacheVars, auxVars>>
    \/ KDeriveSecond /\ UNCHANGED <<connVars, rlVars, cacheVars, auxVars>>
KeySpec == KeyInit /\ [][KeyNext]_vars

\* ------------------------------------------------- lib/cache.ts: withCache
\* Largest cache TTL (seconds) a configuration may carry.
MaxTtl == 2
\* Largest clock value (seconds) the cache model reaches.
MaxStart == 1

\* maxValueSize when the configuration gives none: 1024 * 1024.
DefaultMaxValueSize == 1048576

\* Values a fetch function may produce: plain JSON data, a Date (JSON text:
\* a string), undefined (no JSON text), plain data larger than 1 MiB.
VPlain == [t |-> "obj", v |-> "A"]
VDate == [t |-> "date", v |-> "D"]
VUndef == [t |-> "undefined", v |-> ""]
VBig == [t |-> "obj", v |-> "BIG"]
Values == {VPlain, VDate, VUndef, VBig}
VNone == [t |-> "none", v |-> ""]
\* The writer of an entry that withCache() did not write.
VExt == [t |-> "ext", v |-> ""]

\* A stored text: the JSON value it denotes and its length.
NoText == [json |-> VUndef, len |-> 0]
Corrupt == [json |-> [t |-> "corrupt", v |-> ""], len |-> 1]
\* JSON.stringify(value): a Date becomes a string, undefined has no text.
JSONStringify(val) ==
    IF val.t = "undefined" THEN NoText
    ELSE [json |-> IF val.t = "date" THEN [t |-> "str", v |-> val.v] ELSE val,
          len |-> IF val.v = "BIG" THEN DefaultMaxValueSize + 1 ELSE 3]
\* JSON.parse(text) throws on a text that is not JSON.
ParseThrows(text) == text.json.t = "corrupt"
JSONParse(text) == text.json

\* A limit taken from the configuration alone, without the default.
MaxSizeNoDefault(c) == c.maxValueSize
\* config.maxValueSize || 1024 * 1024
MaxSize(c) == IF c.maxValueSize = 0 THEN DefaultMaxValueSize ELSE c.maxValueSize
\* The try block around the write: stringify, length check, setex.  TRUE when
\* the entry is written.
Writes(val, c) ==
    /\ val.t # "undefined"
    /\ JSONStringify(val).len <= MaxSize(c)
    /\ CommandOk

\* The params the callers pass: {a: "A", b: "A"} in both orders, and
\* {a: 1n, b: "A"}, which JSON.stringify rejects, in both orders.
PStr == [t |-> "str", v |-> <<65>>]
PBig == [t |-> "bigint", v |-> <<>>]
ParamChoices ==
    {<<[k |-> <<97>>, val |-> PStr], [k |-> <<98>>, val |-> PStr]>>,
     <<[k |-> <<98>>, val |-> PStr], [k |-> <<97>>, val |-> PStr]>>}
BigParamChoices ==
    {<<[k |-> <<97>>, val |-> PBig], [k |-> <<98>>, val |-> PStr]>>,
     <<[k |-> <<98>>, val |-> PStr], [k |-> <<97>>, val |-> PBig]>>}

\* A try block whose catch rethrows: the call fails.
Rethrow == "threw"
\* Where an error thrown inside withCache()'s try block takes the call: to the
\* catch block, which runs fetchFn instead of rethrowing.
OnError == "catch"

\* The withCache() calls in flight.
CProcs == {"w1"}

\* The key of every call the model makes, derived once: key prefix, params
\* and clock value are the inputs of the derivation.
KeyPrefixes == {<<>>}
CacheKeys ==
    [x \in KeyPrefixes \X (ParamChoices \cup BigParamChoices) \X (0..MaxStart) |->
        CacheKey(StrJourneys, x[1], x[2], x[3])]

WcIdle ==
    [pc |-> "idle", ps |-> <<>>, key |-> <<>>, val |-> VNone, hit |-> FALSE,
     n |-> 0, computed |-> VNone, threw |-> 0, err |-> 0,
     unavail |-> FALSE, ops |-> 0, fault |-> "none",
     wrote |-> FALSE, stored |-> NoText, seen |-> NoText, prior |-> VNone]

\* The value an entry stored by an earlier call with the same entries in
\* another order was computed from, if the store holds such an entry.
PriorOf(ps) ==
    LET ks == {k \in DOMAIN cache :
                 cache[k].by # VExt /\ cache[k].ps # ps /\ cache[k].ps \in Reorderings(ps)}
    IN IF ks = {} THEN VNone ELSE cache[CHOOSE k \in ks : TRUE].by

\* withCache(key, config, fetchFn, params) is entered: the key is derived.
WCStart(p, ps) ==
    /\ wc[p].pc = "idle"
    /\ now <= MaxStart
    /\ wc' = [wc EXCEPT ![p] = [WcIdle EXCEPT !.pc = "probe", !.ps = ps,
                                 !.key = CacheKeys[<<cfg.keyPrefix, ps, now>>]]]
    /\ UNCHANGED <<connVars, cache, cfg, now>>

\* if (!(await isRedisAvailable()))
WCProbe(p) ==
    /\ wc[p].pc = "probe"
    /\ redisClient' = GetRedisClientHandle
    /\ wc' = [wc EXCEPT ![p].pc = IF IsRedisAvailable THEN "client" ELSE "direct",
                        ![p].unavail = ~IsRedisAvailable]
    /\ UNCHANGED <<redisUrl, redisUp, cache, cfg, now>>

\* One invocation of fetchFn by call p: it yields a value and the call goes
\* on at `next`, or it throws and the call goes on at `onThrow`.
Fetch(p, next, onThrow) ==
    \/ \E v \in Values :
          wc' = [wc EXCEPT ![p].pc = next, ![p].val = v, ![p].computed = v,
                           ![p].n = @ + 1]
    \/ wc' = [wc EXCEPT ![p].pc = onThrow, ![p].n = @ + 1,
                        ![p].threw = IF @ = 0 THEN wc[p].n + 1 ELSE @,
                        ![p].err = IF onThrow = "threw" THEN wc[p].n + 1 ELSE @]

\* Store unavailable: const value = await fetchFn(), inside the try block.
WCDirect(p) ==
    /\ wc[p].pc = "direct"
    /\ Fetch(p, "done", OnError)
    /\ UNCHANGED <<connVars, cache, cfg, now>>

\* const client = await getRedisClient()
WCGetClient(p) ==
    /\ wc[p].pc = "client"
    /\ redisClient' = GetRedisClientHandle
    /\ wc' = [wc EXCEPT ![p].pc = IF GetRedisClientOk THEN "get" ELSE OnError,
                        ![p].fault = IF GetRedisClientOk THEN @ ELSE "client"]
    /\ UNCHANGED <<redisUrl, redisUp, cache, cfg, now>>

\* A read that renews the expiry of the entry it serves (sliding expiry).
WCGetTouching(p) ==
    /\ wc[p].pc = "get"
    /\ LET k == wc[p].key
           found == k \in DOMAIN cache
           served == CommandOk /\ found /\ ~ParseThrows(cache[k].text)
       IN /\ wc' = [wc EXCEPT ![p] =
                      IF ~CommandOk
                      THEN [@ EXCEPT !.pc = OnError, !.ops = @ + 1, !.fault = "read"]
                      ELSE IF served
                      THEN [@ EXCEPT !.pc = "done", !.ops = @ + 1, !.hit = TRUE,
                                     !.val = JSONParse(cache[k].text),
                                     !.seen = cache[k].text, !.prior = PriorOf(wc[p].ps)]
                      ELSE [@ EXCEPT !.pc = "fetch", !.ops = @ + 1,
                                     !.fault = IF found THEN "parse" ELSE @,
                                     !.prior = PriorOf(wc[p].ps)]]
          /\ cache' = IF served THEN [cache EXCEPT ![k].ttl = cfg.ttl] ELSE cache
    /\ UNCHANGED <<connVars, cfg, now>>

\* const cachedValue = await client.get(cacheKey), then the hit branch.
WCGet(p) ==
    /\ wc[p].pc = "get"
    /\ LET k == wc[p].key
           found == k \in DOMAIN cache
       IN wc' = [wc EXCEPT ![p] =
                   IF ~CommandOk
                   THEN [@ EXCEPT !.pc = OnError, !.ops = @ + 1, !.fault = "read"]
                   ELSE IF found /\ ~ParseThrows(cache[k].text)
                   THEN [@ EXCEPT !.pc = "done", !.ops = @ + 1, !.hit = TRUE,
                                  !.val = JSONParse(cache[k].text),
                                  !.seen = cache[k].text, !.prior = PriorOf(wc[p].ps)]
                   ELSE [@ EXCEPT !.pc = "fetch", !.ops = @ + 1,
                                  !.fault = IF found THEN "parse" ELSE @,
                                  !.prior = PriorOf(wc[p].ps)]]
    /\ UNCHANGED <<connVars, cache, cfg, now>>

\* Cache miss: const value = await fetchFn()
WCFetch(p) ==
    /\ wc[p].pc = "fetch"
    /\ Fetch(p, "set", OnError)
    /\ UNCHANGED <<connVars, cache, cfg, now>>

\* The write, in its own try block, then return {hit: false, value}.
WCSet(p) ==
    /\ wc[p].pc = "set"
    /\ LET v == wc[p].val
           attempted == v.t # "undefined" /\ JSONStringify(v).len <= MaxSize(cfg)
       IN /\ cache' = IF Writes(v, cfg)
                      THEN [k \in DOMAIN cache \cup {wc[p].key} |->
                              IF k = wc[p].key
                              THEN [text |-> JSONStringify(v), ttl |-> cfg.ttl,
                                    by |-> v, ps |-> wc[p].ps]
                              ELSE cache[k]]
                      ELSE cache
          /\ wc' = [wc EXCEPT ![p].pc = "done",
                              ![p].ops = IF attempted THEN @ + 1 ELSE @,
                              ![p].wrote = Writes(v, cfg),
                              ![p].stored = IF wc[p].key \in DOMAIN cache'
                                            THEN cache'[wc[p].key].text ELSE NoText,
                              ![p].fault = IF attempted /\ ~CommandOk THEN "write" ELSE @]
    /\ UNCHANGED <<connVars, cfg, now>>

\* catch (error): const value = await fetchFn(); return {hit: false, value}
WCCatch(p) ==
    /\ wc[p].pc = "catch"
    /\ Fetch(p, "done", "threw")
    /\ UNCHANGED <<connVars, cache, cfg, now>>

\* The caller takes the result, or the rejection.
WCReturn(p) ==
    /\ wc[p].pc \in {"done", "threw"}
    /\ wc' = [wc EXCEPT ![p] = WcIdle]
    /\ UNCHANGED <<connVars, cache, cfg, now>>

\* One second passes: the clock advances, every entry's expiry counts down,
\* an entry whose expiry reaches 0 is removed.
CacheTick ==
    /\ now < MaxStart
    /\ now' = now + 1
    /\ cache' = [k \in {x \in DOMAIN cache : cache[x].ttl > 1} |->
                   [cache[k] EXCEPT !.ttl = @ - 1]]
    /\ UNCHANGED <<connVars, cfg, wc>>

\* Another client of the shared store overwrites an entry with a text that
\* is not JSON.
ExtCorrupt ==
    /\ CommandOk
    /\ \E k \in DOMAIN cache :
          /\ cache[k].text # Corrupt
          /\ cache' = [cache EXCEPT ![k] = [@ EXCEPT !.text = Corrupt, !.by = VExt, !.ps = <<>>]]
    /\ UNCHANGED <<connVars, cfg, wc, now>>

CInit ==
    /\ cache = <<>>
    /\ cfg \in [ttl : 1..MaxTtl, keyPrefix : KeyPrefixes, maxValueSize : {0, 2}]
    /\ wc = [p \in CProcs |-> WcIdle]
    /\ now = 0

CacheInit == ConnInit /\ RLIdle /\ KeyIdle /\ CInit /\ AuxIdle
CacheNext ==
    \/ ServerDown /\ UNCHANGED <<rlVars, now, keyVars, cacheVars, auxVars>>
    \/ ServerUp /\ UNCHANGED <<rlVars, now, keyVars, cacheVars, auxVars>>
    \/ ConnClose /\ UNCHANGED <<rlVars, now, keyVars, cacheVars, auxVars>>
    \/ Reconnect /\ UNCHANGED <<rlVars, now, keyVars, cacheVars, auxVars>>
    \/ \E p \in CProcs, ps \in ParamChoices : WCStart(p, ps) /\ UNCHANGED <<rlVars, keyVars, auxVars>>
    \/ \E p \in CProcs : WCProbe(p) /\ UNCHANGED <<rlVars, keyVars, auxVars>>
    \/ \E p \in CProcs : WCDirect(p) /\ UNCHANGED <<rlVars, keyVars, auxVars>>
    \/ \E p \in CProcs : WCGetClient(p) /\ UNCHANGED <<rlVars, keyVars, auxVars>>
    \/ \E p \in CProcs : WCGet(p) /\ UNCHANGED <<rlVars, keyVars, auxVars>>
    \/ \E p \in CProcs : WCFetch(p) /\ UNCHANGED <<rlVars, keyVars, auxVars>>
    \/ \E p \in CProcs : WCSet(p) /\ UNCHANGED <<rlVars, keyVars, auxVars>>
    \/ \E p \in CProcs : WCCatch(p) /\ UNCHANGED <<rlVars, keyVars, auxVars>>
    \/ \E p \in CProcs : WCReturn(p) /\ UNCHANGED <<rlVars, keyVars, auxVars>>
    \/ CacheTick /\ UNCHANGED <<rlVars, keyVars, auxVars>>
    \/ ExtCorrupt /\ UNCHANGED <<rlVars, keyVars, auxVars>>
CacheSpec == CacheInit /\ [][CacheNext]_vars

\* withCache() while the store stays available, called also with params that
\* JSON.stringify rejects.
HitInit ==
    /\ redisUrl = TRUE /\ redisUp = TRUE /\ redisClient = "null"
    /\ RLIdle /\ KeyIdle /\ CInit /\ AuxIdle
HitNext ==
    \/ \E p \in CProcs, ps \in ParamChoices \cup BigParamChoices :
          WCStart(p, ps) /\ UNCHANGED <<rlVars, keyVars, auxVars>>
    \/ \E p \in CProcs : WCProbe(p) /\ UNCHANGED <<rlVars, keyVars, auxVars>>
    \/ \E p \in CProcs : WCGetClient(p) /\ UNCHANGED <<rlVars, keyVars, auxVars>>
    \/ \E p \in CProcs : WCGet(p) /\ UNCHANGED <<rlVars, keyVars, auxVars>>
    \/ \E p \in CProcs : WCFetch(p) /\ UNCHANGED <<rlVars, keyVars, auxVars>>
    \/ \E p \in CProcs : WCSet(p) /\ UNCHANGED <<rlVars, keyVars, auxVars>>
    \/ \E p \in CProcs : WCCatch(p) /\ UNCHANGED <<rlVars, keyVars, auxVars>>
    \/ \E p \in CProcs : WCReturn(p) /\ UNCHANGED <<rlVars, keyVars, auxVars>>
    \/ CacheTick /\ UNCHANGED <<rlVars, keyVars, auxVars>>
    \/ ExtCorrupt /\ UNCHANGED <<rlVars, keyVars, auxVars>>
HitSpec == HitInit /\ [][HitNext]_vars

\* Two withCache() calls in flight at once with the same params, so on the
\* same key, while the store stays available.
FlightInit ==
    /\ redisUrl = TRUE /\ redisUp = TRUE /\ redisClient = "null"
    /\ RLIdle /\ KeyIdle /\ AuxIdle
    /\ cache = <<>>
    /\ cfg \in [ttl : 1..MaxTtl, keyPrefix : KeyPrefixes, maxValueSize : {0}]
    /\ wc = [p \in {"w1", "w2"} |-> WcIdle]
    /\ now = 0
FlightNext ==
    \/ \E p \in DOMAIN wc, ps \in ParamChoices : WCStart(p, ps) /\ UNCHANGED <<rlVars, keyVars, auxVars>>
    \/ \E p \in DOMAIN wc : WCProbe(p) /\ UNCHANGED <<rlVars, keyVars, auxVars>>
    \/ \E p \in DOMAIN wc : WCGetClient(p) /\ UNCHANGED <<rlVars, keyVars, auxVars>>
    \/ \E p \in DOMAIN wc : WCGet(p) /\ UNCHANGED <<rlVars, keyVars, auxVars>>
    \/ \E p \in DOMAIN wc : WCFetch(p) /\ UNCHANGED <<rlVars, keyVars, auxVars>>
    \/ \E p \in DOMAIN wc : WCSet(p) /\ UNCHANGED <<rlVars, keyVars, auxVars>>
    \/ \E p \in DOMAIN wc : WCCatch(p) /\ UNCHANGED <<rlVars, keyVars, auxVars>>
    \/ \E p \in DOMAIN wc : WCReturn(p) /\ UNCHANGED <<rlVars, keyVars, auxVars>>
FlightSpec == FlightInit /\ [][FlightNext]_vars

\* ------------------------------------------------- lib/ratelimit.ts: requests
\* Largest number of entries in the reply of the batch.
MaxReply == 4

\* String.prototype.trim(), for spaces.
Trim(s) ==
    LET idx == {i \in 1..Len(s) : s[i] # 32}
    IN IF idx = {} THEN <<>>
       ELSE SubSeq(s, CHOOSE i \in idx : \A j \in idx : i <= j,
                      CHOOSE i \in idx : \A j \in idx : i >= j)
\* s.split(",")[0]
FirstEntry(s) ==
    LET cs == {i \in 1..Len(s) : s[i] = 44}
    IN IF cs = {} THEN s ELSE SubSeq(s, 1, (CHOOSE i \in cs : \A j \in cs : i <= j) - 1)

\* The header sets of the requests.  headers.get(name) is null for an absent
\* header (set FALSE), else its text v: empty, or carrying an address
\* ("1" .. "5"), some with the "::ffff:" prefix, x-forwarded-for with several
\* entries.
HeaderSets ==
    LET Absent == [set |-> FALSE, v |-> <<>>]
        Hdr(v) == [set |-> TRUE, v |-> v]
        mapped == <<58, 58, 102, 102, 102, 102, 58>>
    IN [cf : {Absent, Hdr(<<>>), Hdr(<<49>>), Hdr(mapped \o <<49>>)},
        tci : {Absent, Hdr(<<>>), Hdr(<<50>>)},
        xff : {Absent, Hdr(<<>>), Hdr(<<51, 44, 32, 52>>), Hdr(<<44, 52>>),
               Hdr(<<32, 51, 32, 44, 52>>)},
        xri : {Absent, Hdr(<<>>), Hdr(<<53>>), Hdr(mapped \o <<53>>)}]

\* getClientIP(request).  An undefined or empty string is <<>>.
getClientIP(h) ==
    LET cfIp == IF h.cf.set THEN h.cf ELSE h.tci
        ip1 == IF cfIp.set THEN Trim(cfIp.v) ELSE <<>>
        forwarded == IF h.xff.set THEN Trim(FirstEntry(h.xff.v)) ELSE <<>>
        ip2 == IF ip1 # <<>> THEN ip1 ELSE forwarded
        realIP == IF h.xri.set THEN Trim(h.xri.v) ELSE <<>>
        ip3 == IF ip2 # <<>> THEN ip2 ELSE realIP
        ip4 == IF Len(ip3) >= 7 /\ SubSeq(ip3, 1, 7) = <<58, 58, 102, 102, 102, 102, 58>>
               THEN SubSeq(ip3, 8, Len(ip3)) ELSE ip3
    IN IF ip4 # <<>> THEN ip4 ELSE <<117, 110, 107, 110, 111, 119, 110>>

\* What `await pipeline.exec()` gives: it throws, or resolves to null, or to
\* a list of [error, result] pairs (val is the result when err is FALSE).
Replies ==
    [kind : {"throw", "null"}, rs : {<<>>}] \cup
    [kind : {"list"},
     rs : UNION {[1..n -> [err : {FALSE}, val : 0..(MaxLimit + 1)] \cup
                          [err : {TRUE}, val : {0}]] : n \in 0..MaxReply}]

\* rateLimit() from the reply of the batch on.  With results[0] an error its
\* result is undefined: count is undefined and remaining NaN (written -1),
\* and undefined <= limit is false.
rateLimit(reply, lim, win) ==
    IF reply.kind # "list" \/ Len(reply.rs) # 3 THEN FailOpen(lim, win)
    ELSE LET c == reply.rs[1]
             t == IF reply.rs[3].err THEN 0 ELSE reply.rs[3].val
         IN IF ~c.err THEN Decision(<<c.val, 0, t>>, lim, win)
            ELSE [allowed |-> FALSE, count |-> -1, limit |-> lim,
                  resetTime |-> IF t > 0 THEN t ELSE win, remaining |-> -1]

\* What the inner handler does when invoked: it throws, or resolves to a
\* response, whose headers may be immutable.
Thrown == [status |-> 0, body |-> "", headers |-> <<>>, frozen |-> FALSE]
HandlerOutcomes ==
    {Thrown} \cup
    [status : {200, 302, 400, 500}, body : {"B"}, headers : {<<>>}, frozen : BOOLEAN]
\* The three rate-limit headers of a result, and Retry-After.
RateLimitHeaders(res) ==
    [n \in {"X-RateLimit-Limit", "X-RateLimit-Remaining", "X-RateLimit-Reset"} |->
        IF n = "X-RateLimit-Limit" THEN res.limit
        ELSE IF n = "X-RateLimit-Remaining" THEN res.remaining ELSE res.resetTime]

RqIdle ==
    [pc |-> "idle", kind |-> "wrap", lim |-> 1, win |-> 1, headers |-> <<>>,
     ip |-> <<>>, reply |-> [kind |-> "throw", rs |-> <<>>], res |-> NoResult,
     resp |-> Thrown, calls |-> 0, last |-> Thrown]

\* A request enters withRateLimit(handler, config) ("wrap") or the
\* middleware of createRateLimitMiddleware(config) ("legacy"); the identity
\* is taken from its headers.  limit 0 or window 0: not given.
RqStart(kind, l, w) ==
    /\ rq.pc = "idle"
    /\ kind = "legacy" => (l > 0 /\ w > 0)
    /\ \E h \in HeaderSets :
          rq' = [RqIdle EXCEPT !.pc = "ip", !.kind = kind,
                               !.lim = IF l = 0 THEN 30 ELSE l,
                               !.win = IF w = 0 THEN 60 ELSE w,
                               !.headers = h, !.ip = getClientIP(h)]

\* rateLimit(ip, config) is entered: only the identity goes into the key.
RqKey ==
    /\ rq.pc = "ip"
    /\ rq' = [rq EXCEPT !.pc = "limit", !.headers = <<>>]

\* const results = await pipeline.exec(), and the result of rateLimit()
RqRateLimit ==
    /\ rq.pc = "limit"
    /\ \E reply \in Replies :
          rq' = [rq EXCEPT !.pc = "checked", !.ip = <<>>,
                           !.reply = reply, !.res = rateLimit(reply, rq.lim, rq.win)]

\* if (!result.allowed) return the 429 response
RqReject ==
    /\ rq.pc = "checked" /\ ~rq.res.allowed
    /\ rq' = [rq EXCEPT
                !.pc = "done", !.reply = RqIdle.reply,
                !.resp = [status |-> 429, frozen |-> FALSE,
                          body |-> [error |-> "Rate limit exceeded", limit |-> rq.res.limit,
                                    remaining |-> rq.res.remaining,
                                    resetTime |-> rq.res.resetTime],
                          headers |->
                            IF rq.kind = "wrap"
                            THEN [n \in DOMAIN RateLimitHeaders(rq.res) \cup {"Retry-After"} |->
                                    IF n = "Retry-After" THEN rq.res.resetTime
                                    ELSE RateLimitHeaders(rq.res)[n]]
                            ELSE RateLimitHeaders(rq.res)]]

\* The handler is invoked (await handler(request, ...args); await next()),
\* then the headers are set on a response with status < 400.
RqHandler(out) ==
    /\ rq.pc = "checked" /\ rq.res.allowed
    /\ rq' = [rq EXCEPT
                !.reply = RqIdle.reply, !.calls = @ + 1, !.last = out,
                !.pc = IF out = Thrown THEN (IF rq.kind = "wrap" THEN "catch" ELSE "threw")
                       ELSE IF rq.kind = "wrap" /\ out.status < 400 /\ out.frozen
                       THEN "catch" ELSE "done",
                !.resp = IF out = Thrown THEN Thrown
                         ELSE IF rq.kind = "legacy" \/ (out.status < 400 /\ ~out.frozen)
                         THEN [out EXCEPT !.headers = RateLimitHeaders(rq.res)]
                         ELSE out]

\* catch (error): return await handler(request, ...args)
RqCatch(out) ==
    /\ rq.pc = "catch"
    /\ rq' = [rq EXCEPT !.calls = @ + 1, !.last = out, !.resp = out,
                        !.pc = IF out = Thrown THEN "threw" ELSE "done"]

\* The response, or the rejection, leaves the middleware.
RqReturn ==
    /\ rq.pc \in {"done", "threw"}
    /\ rq' = RqIdle

RequestInit ==
    /\ ConnIdle /\ RLIdle /\ KeyIdle /\ CacheIdle /\ now = 0
    /\ rq = RqIdle /\ inv = <<>> /\ objs = <<>> /\ ref = 0 /\ gcl = <<>>
RequestNext ==
    \/ \E kind \in {"wrap", "legacy"}, l \in 0..MaxLimit, w \in 0..MaxWindow :
          RqStart(kind, l, w) /\ UNCHANGED <<connVars, rlVars, now, keyVars, cacheVars, inv, objs, ref, gcl>>
    \/ RqKey /\ UNCHANGED <<connVars, rlVars, now, keyVars, cacheVars, inv, objs, ref, gcl>>
    \/ RqRateLimit /\ UNCHANGED <<connVars, rlVars, now, keyVars, cacheVars, inv, objs, ref, gcl>>
    \/ RqReject /\ UNCHANGED <<connVars, rlVars, now, keyVars, cacheVars, inv, objs, ref, gcl>>
    \/ \E out \in HandlerOutcomes :
          RqHandler(out) /\ UNCHANGED <<connVars, rlVars, now, keyVars, cacheVars, inv, objs, ref, gcl>>
    \/ \E out \in HandlerOutcomes :
          RqCatch(out) /\ UNCHANGED <<connVars, rlVars, now, keyVars, cacheVars, inv, objs, ref, gcl>>
    \/ RqReturn /\ UNCHANGED <<connVars, rlVars, now, keyVars, cacheVars, inv, objs, ref, gcl>>
RequestSpec == RequestInit /\ [][RequestNext]_vars

\* ------------------------------------------------- lib/cache.ts: invalidateCache
\* Largest number of pages one cursor scan takes.
MaxPages == 2

\* The keys the store may hold ("a1", "a2", "b1").
InvKeys == {<<97, 49>>, <<97, 50>>, <<98, 49>>}

\* invalidateCache(pattern) begins on a store holding inv.store: the probe
\* `await isRedisAvailable()`.
InvProbe ==
    /\ inv.pc = "start"
    /\ redisClient' = GetRedisClientHandle
    /\ inv' = IF IsRedisAvailable THEN [inv EXCEPT !.pc = "client"]
              ELSE [inv EXCEPT !.pc = "done", !.ret = 0, !.fault = "probe"]
    /\ UNCHANGED <<redisUrl, redisUp>>

\* const client = await getRedisClient()
InvGetClient ==
    /\ inv.pc = "client"
    /\ redisClient' = GetRedisClientHandle
    /\ inv' = IF GetRedisClientOk THEN [inv EXCEPT !.pc = "scan"]
              ELSE [inv EXCEPT !.pc = "done", !.ret = 0, !.fault = "client"]
    /\ UNCHANGED <<redisUrl, redisUp>>

\* One page of the do/while: client.scan(cursor, "MATCH", pattern, ...) and
\* keys.push(...result[1]).  A page holds any of the matching keys of the
\* store; a scan that ends (cursor "0", here 0) has reported each of them at
\* least once, and a scan that goes on has moved to another cursor.  The
\* loop has no bound of its own: it goes on for as long as the
\* store answers with a cursor other than "0" (the counts kept here stop
\* growing at MaxPages).  After the last page invalidateCache() goes on with
\* `if (keys.length === 0) return 0`, getCacheStats() with client.info.
InvScan ==
    /\ inv.pc = "scan"
    /\ LET n == Len(inv.pattern) - 1
           matching == {k \in inv.store :
                           Len(k) >= n /\ SubSeq(k, 1, n) = SubSeq(inv.pattern, 1, n)}
       IN IF ~CommandOk
          THEN inv' = [inv EXCEPT !.pc = "done", !.ret = 0, !.fault = "scan"]
          ELSE \E found \in SUBSET matching, cursor \in 0..MaxPages :
                  LET last == cursor = 0
                      keys == [k \in InvKeys |->
                                  IF k \in found /\ inv.keys[k] < MaxPages
                                  THEN inv.keys[k] + 1 ELSE inv.keys[k]]
                  IN /\ cursor = 0 \/ cursor # inv.cursor
                     /\ last => \A k \in matching : keys[k] > 0
                     /\ inv' = [inv EXCEPT
                                  !.cursor = cursor, !.keys = keys,
                                  !.pages = IF @ < MaxPages THEN @ + 1 ELSE @,
                                  !.pc = IF ~last THEN "scan"
                                         ELSE IF inv.op = "stats" THEN "info"
                                         ELSE IF \A k \in InvKeys : keys[k] = 0
                                         THEN "done" ELSE "del",
                                  !.ret = 0]
    /\ UNCHANGED connVars

\* A delete without the command timeout: it waits for as long as the store
\* does not answer.
InvDelNoTimeout ==
    /\ inv.pc = "del" /\ CommandOk
    /\ inv' = [inv EXCEPT !.pc = "done", !.ret = Cardinality(inv.store \cap {k \in InvKeys : inv.keys[k] > 0}),
                          !.store = @ \ {k \in InvKeys : inv.keys[k] > 0}]
    /\ UNCHANGED connVars

\* A delete that reports every name of the list, repeated ones included.
InvDelCountingNames ==
    /\ inv.pc = "del"
    /\ LET keys == {k \in InvKeys : inv.keys[k] > 0}
       IN inv' = [inv EXCEPT !.pc = "done", !.store = @ \ keys,
                             !.ret = inv.keys[<<97, 49>>] + inv.keys[<<97, 50>>]
                                     + inv.keys[<<98, 49>>]]
    /\ UNCHANGED connVars

\* const deletedCount = await client.del(keys): rejected unsent, or executed
\* and answered with the number of keys it removed, or executed while the
\* answer is lost with the connection (the 5 s commandTimeout, a closing
\* socket) and the call rejects.
InvDel ==
    /\ inv.pc = "del"
    /\ LET keys == {k \in InvKeys : inv.keys[k] > 0}
       IN IF ~CommandOk
          THEN /\ inv' = [inv EXCEPT !.pc = "done", !.ret = 0, !.fault = "del"]
               /\ UNCHANGED connVars
          ELSE \/ /\ inv' = [inv EXCEPT !.pc = "done", !.store = @ \ keys,
                                        !.ret = Cardinality(inv.store \cap keys)]
                  /\ UNCHANGED connVars
               \/ /\ inv' = [inv EXCEPT !.pc = "done", !.store = @ \ keys,
                                        !.ret = 0, !.fault = "lost"]
                  /\ redisUp' = FALSE
                  /\ UNCHANGED <<redisUrl, redisClient>>

\* getCacheStats(): const info = await client.info("memory"), then
\* return {connected: true, keys: keys.length, ...}; the catch returns
\* {connected: false, keys: 0, ...}.
InvInfo ==
    /\ inv.pc = "info"
    /\ inv' = IF CommandOk
              THEN [inv EXCEPT !.pc = "done", !.connected = TRUE,
                               !.ret = inv.keys[<<97, 49>>] + inv.keys[<<97, 50>>]
                                       + inv.keys[<<98, 49>>]]
              ELSE [inv EXCEPT !.pc = "done", !.ret = 0, !.fault = "info"]
    /\ UNCHANGED connVars

\* The call has returned; the next one, invalidateCache(pattern) or
\* getCacheStats() (whose pattern is fixed), begins on the store as it is.
InvReturn ==
    /\ inv.pc = "done"
    /\ \E op \in {"invalidate", "stats"}, pattern \in {<<97, 42>>, <<99, 42>>} :
          /\ op = "stats" => pattern = <<97, 42>>
          /\ inv' = [op |-> op, pc |-> "start", pattern |-> pattern,
                     store |-> inv.store, before |-> inv.store,
                     cursor |-> 0, keys |-> [k \in InvKeys |-> 0], pages |-> 0, ret |-> 0,
                     connected |-> FALSE, fault |-> "none"]
    /\ UNCHANGED connVars

InvInit ==
    /\ ConnInit /\ RLIdle /\ KeyIdle /\ CacheIdle /\ now = 0
    /\ rq = <<>> /\ objs = <<>> /\ ref = 0 /\ gcl = <<>>
    /\ \E store \in SUBSET InvKeys, pattern \in {<<97, 42>>, <<99, 42>>} :
          inv = [op |-> "invalidate", pc |-> "start", pattern |-> pattern,
                 store |-> store, before |-> store,
                 cursor |-> 0, keys |-> [k \in InvKeys |-> 0], pages |-> 0, ret |-> 0,
                 connected |-> FALSE, fault |-> "none"]
InvNext ==
    \/ ServerDown /\ UNCHANGED <<rlVars, now, keyVars, cacheVars, auxVars>>
    \/ ServerUp /\ UNCHANGED <<rlVars, now, keyVars, cacheVars, auxVars>>
    \/ ConnClose /\ UNCHANGED <<rlVars, now, keyVars, cacheVars, auxVars>>
    \/ Reconnect /\ UNCHANGED <<rlVars, now, keyVars, cacheVars, auxVars>>
    \/ InvProbe /\ UNCHANGED <<rlVars, now, keyVars, cacheVars, rq, objs, ref, gcl>>
    \/ InvGetClient /\ UNCHANGED <<rlVars, now, keyVars, cacheVars, rq, objs, ref, gcl>>
    \/ InvScan /\ UNCHANGED <<rlVars, now, keyVars, cacheVars, rq, objs, ref, gcl>>
    \/ InvDel /\ UNCHANGED <<rlVars, now, keyVars, cacheVars, rq, objs, ref, gcl>>
    \/ InvInfo /\ UNCHANGED <<rlVars, now, keyVars, cacheVars, rq, objs, ref, gcl>>
    \/ InvReturn /\ UNCHANGED <<rlVars, now, keyVars, cacheVars, rq, objs, ref, gcl>>
InvSpec == InvInit /\ [][InvNext]_vars

\* Every store command returns or is rejected (commandTimeout: 5000), and a
\* call goes on after each await: its steps are taken when they stay enabled.
\* Nothing is assumed of the store or of the arrival of further calls.
LiveSpec ==
    /\ InvInit /\ [][InvNext]_vars
    /\ WF_vars((InvProbe \/ InvGetClient \/ InvScan \/ InvDel \/ InvInfo)
                   /\ UNCHANGED <<rlVars, now, keyVars, cacheVars, rq, objs, ref, gcl>>)

\* ------------------------------------------------- lib/redis.ts: the client objects
\* Largest number of client objects created in one run.
MaxObjs == 2

\* objs[i] is the status of the i-th object made by `new Redis(...)`:
\* "connecting", "ready", "reconnecting" (closed, retryStrategy gave a delay)
\* or "end" (quit, or retryStrategy gave null).  ref is the module-level
\* redisClient (0: null).  gcl[p] is the call of caller p: its operation op
\* ("get": getRedisClient(), "close": closeRedisClient(), "withCache" and
\* "rateLimit" up to the result of their isRedisAvailable() probe), the
\* object obj whose connect() or quit() it awaits, the handle out that
\* getRedisClient() returned to it, the error err it met, and its result ret
\* ("miss": {data, hit: false}, "failopen": the fail-open result, "store":
\* the store is available and the call goes on to it).

\* An isRedisAvailable() that lets the error of getRedisClient() through.
OnFailureRejects(c, err) == [c EXCEPT !.pc = "done", !.err = err]

\* The call c after its getRedisClient() or isRedisAvailable() failed with err:
\* getRedisClient() rejects; rateLimit() returns the fail-open result;
\* withCache() goes on to invoke fetchFn.
OnFailure(c, err) ==
    IF c.op = "rateLimit" THEN [c EXCEPT !.pc = "done", !.err = err, !.ret = "failopen"]
    ELSE IF c.op = "withCache" THEN [c EXCEPT !.pc = "fallback", !.err = err]
    ELSE [c EXCEPT !.pc = "done", !.err = err]

\* Caller p enters getRedisClient(), directly or through isRedisAvailable(),
\* and runs up to `await redisClient.connect()`.
GGet(p, op) ==
    /\ gcl[p].pc = "idle"
    /\ LET c == [gcl[p] EXCEPT !.op = op]
       IN IF ref # 0 /\ objs[ref] = "ready"
          THEN /\ gcl' = [gcl EXCEPT ![p] = [c EXCEPT !.pc = IF op = "get" THEN "done" ELSE "ping",
                                                      !.out = ref]]
               /\ UNCHANGED <<objs, ref>>
          ELSE IF ~redisUrl
          THEN /\ gcl' = [gcl EXCEPT ![p] = OnFailure(c, "config")]
               /\ UNCHANGED <<objs, ref>>
          ELSE /\ Len(objs) < MaxObjs
               /\ objs' = Append(objs, "connecting")
               /\ ref' = Len(objs) + 1
               /\ gcl' = [gcl EXCEPT ![p] = [c EXCEPT !.pc = "connecting",
                                                      !.obj = Len(objs) + 1]]
    /\ UNCHANGED connVars

\* Object i becomes ready (enableReadyCheck: false); connect() resolves for
\* the caller awaiting it, which returns the module-level redisClient.
ObjReady(i) ==
    /\ redisUp /\ objs[i] \in {"connecting", "reconnecting"}
    /\ objs' = [objs EXCEPT ![i] = "ready"]
    /\ gcl' = [p \in DOMAIN gcl |->
                 IF gcl[p].pc = "connecting" /\ gcl[p].obj = i
                 THEN [gcl[p] EXCEPT !.pc = IF gcl[p].op = "get" THEN "done" ELSE "ping",
                                     !.out = ref]
                 ELSE gcl[p]]
    /\ UNCHANGED <<connVars, ref>>

\* The socket of object i closes.  The first close is followed by the
\* reconnection attempts of retryStrategy, which end when it returns null.
\* connect() rejects for the caller awaiting it: redisClient = null; throw.
ObjClose(i) ==
    /\ ~redisUp /\ objs[i] \in {"connecting", "ready", "reconnecting"}
    /\ objs' = [objs EXCEPT ![i] = IF @ = "reconnecting" THEN "end" ELSE "reconnecting"]
    /\ gcl' = [p \in DOMAIN gcl |->
                 IF gcl[p].pc = "connecting" /\ gcl[p].obj = i
                 THEN OnFailure(gcl[p], "connect") ELSE gcl[p]]
    /\ ref' = IF \E p \in DOMAIN gcl : gcl[p].pc = "connecting" /\ gcl[p].obj = i
              THEN 0 ELSE ref
    /\ UNCHANGED connVars

\* Caller p enters closeRedisClient() and runs up to `await redisClient.quit()`.
GClose(p) ==
    /\ gcl[p].pc = "idle"
    /\ gcl' = [gcl EXCEPT ![p] =
                 IF ref # 0 /\ objs[ref] = "ready"
                 THEN [@ EXCEPT !.op = "close", !.pc = "quitting", !.obj = ref]
                 ELSE [@ EXCEPT !.op = "close", !.pc = "done"]]
    /\ UNCHANGED <<connVars, objs, ref>>

\* quit() is answered: the object ends and redisClient = null; or it rejects
\* (closed socket, command timeout) and the catch only logs.
GQuit(p) ==
    /\ gcl[p].pc = "quitting"
    /\ IF redisUp /\ objs[gcl[p].obj] = "ready"
       THEN /\ objs' = [objs EXCEPT ![gcl[p].obj] = "end"]
            /\ ref' = 0
            /\ gcl' = [gcl EXCEPT ![p].pc = "done"]
       ELSE /\ gcl' = [gcl EXCEPT ![p].pc = "done", ![p].err = "quit"]
            /\ UNCHANGED <<objs, ref>>
    /\ UNCHANGED connVars

\* isRedisAvailable(): await client.ping() on the handle getRedisClient()
\* returned.  A null handle throws; a command on a handle that is not ready
\* waits for it and may time out.
GPing(p) ==
    /\ gcl[p].pc = "ping"
    /\ LET h == gcl[p].out
       IN \E ok \in BOOLEAN :
             /\ ok => (h # 0 /\ redisUp /\ objs[h] # "end")
             /\ (h # 0 /\ redisUp /\ objs[h] = "ready") => ok
             /\ gcl' = [gcl EXCEPT ![p] = IF ok THEN [@ EXCEPT !.pc = "done", !.ret = "store"]
                                          ELSE OnFailure(@, "ping")]
    /\ UNCHANGED <<connVars, objs, ref>>

\* withCache() without the store: const data = await fetchFn(); return
\* {data, hit: false}.  A throw of the first invocation is caught by the outer
\* catch, which invokes fetchFn again.
GFallback(p) ==
    /\ gcl[p].pc = "fallback"
    /\ \/ \E v \in {1, 2} :
             gcl' = [gcl EXCEPT ![p] = [@ EXCEPT !.pc = "done", !.ret = "miss", !.data = v,
                                                 !.computed = v, !.n = @ + 1]]
       \/ gcl' = [gcl EXCEPT ![p] = [@ EXCEPT !.n = @ + 1,
                                              !.pc = IF gcl[p].n = 0 THEN "fallback" ELSE "done",
                                              !.err = IF gcl[p].n = 0 THEN @ ELSE "compute"]]
    /\ UNCHANGED <<connVars, objs, ref>>

\* The call of caller p has returned or rejected.
GReturn(p) ==
    /\ gcl[p].pc = "done"
    /\ gcl' = [gcl EXCEPT ![p] = [op |-> "get", pc |-> "idle", obj |-> 0, out |-> 0,
                                  err |-> "none", ret |-> "none", data |-> 0,
                                  computed |-> 0, n |-> 0]]
    /\ UNCHANGED <<connVars, objs, ref>>

ClientInit ==
    /\ ConnInit /\ RLIdle /\ KeyIdle /\ CacheIdle /\ now = 0
    /\ rq = <<>> /\ inv = <<>> /\ objs = <<>> /\ ref = 0
    /\ gcl = [p \in {"g1", "g2"} |->
                 [op |-> "get", pc |-> "idle", obj |-> 0, out |-> 0, err |-> "none",
                  ret |-> "none", data |-> 0, computed |-> 0, n |-> 0]]
ClientNext ==
    \/ ServerDown /\ UNCHANGED <<rlVars, now, keyVars, cacheVars, auxVars>>
    \/ ServerUp /\ UNCHANGED <<rlVars, now, keyVars, cacheVars, auxVars>>
    \/ \E p \in DOMAIN gcl, op \in {"get", "withCache", "rateLimit"} :
          GGet(p, op) /\ UNCHANGED <<rlVars, now, keyVars, cacheVars, rq, inv>>
    \/ \E i \in DOMAIN objs : ObjReady(i) /\ UNCHANGED <<rlVars, now, keyVars, cacheVars, rq, inv>>
    \/ \E i \in DOMAIN objs : ObjClose(i) /\ UNCHANGED <<rlVars, now, keyVars, cacheVars, rq, inv>>
    \/ \E p \in DOMAIN gcl : GClose(p) /\ UNCHANGED <<rlVars, now, keyVars, cacheVars, rq, inv>>
    \/ \E p \in DOMAIN gcl : GQuit(p) /\ UNCHANGED <<rlVars, now, keyVars, cacheVars, rq, inv>>
    \/ \E p \in DOMAIN gcl : GPing(p) /\ UNCHANGED <<rlVars, now, keyVars, cacheVars, rq, inv>>
    \/ \E p \in DOMAIN gcl : GFallback(p) /\ UNCHANGED <<rlVars, now, keyVars, cacheVars, rq, inv>>
    \/ \E p \in DOMAIN gcl : GReturn(p) /\ UNCHANGED <<rlVars, now, keyVars, cacheVars, rq, inv>>
ClientSpec == ClientInit /\ [][ClientNext]_vars

\* ------------------------------------------------- lib/redis.ts: retryStrategy
\* A reconnection policy without the 5000 ms cap.
retryStrategyUncapped(times) == IF times > 10 THEN -1 ELSE 2 ^ times * 100

\* retryStrategy(times): the delay in ms before reconnection attempt number
\* times (the client counts them from 1), or null (here -1) to give up.
retryStrategy(times) ==
    IF times > 10 THEN -1
    ELSE IF 2 ^ times * 100 < 5000 THEN 2 ^ times * 100 ELSE 5000

\* The client objects with their reconnection state: objs[i] holds the status
\* of the i-th object made by `new Redis(...)`, the number retryAttempts of
\* reconnection attempts since it last connected, and the delay the policy
\* gave for the attempt under way.
RetryInit ==
    /\ ConnInit /\ RLIdle /\ KeyIdle /\ CacheIdle /\ now = 0
    /\ rq = <<>> /\ inv = <<>> /\ gcl = <<>> /\ objs = <<>> /\ ref = 0
RetryNext ==
    \/ ServerDown /\ UNCHANGED <<rlVars, now, keyVars, cacheVars, auxVars>>
    \/ ServerUp /\ UNCHANGED <<rlVars, now, keyVars, cacheVars, auxVars>>
    \* getRedisClient() holding no ready client: redisClient = new Redis(...)
    \/ /\ redisUrl /\ Len(objs) < MaxObjs
       /\ IF ref = 0 THEN TRUE ELSE objs[ref].status # "ready"
       /\ objs' = Append(objs, [status |-> "connecting", retryAttempts |-> 0, delay |-> 0])
       /\ ref' = Len(objs) + 1
       /\ UNCHANGED connVars /\ UNCHANGED <<rlVars, now, keyVars, cacheVars, rq, inv, gcl>>
    \* the socket of object i connects: the count of attempts starts again
    \/ \E i \in DOMAIN objs :
          /\ redisUp /\ objs[i].status = "connecting"
          /\ objs' = [objs EXCEPT ![i] = [status |-> "ready", retryAttempts |-> 0, delay |-> 0]]
          /\ UNCHANGED <<connVars, ref>> /\ UNCHANGED <<rlVars, now, keyVars, cacheVars, rq, inv, gcl>>
    \* the socket of object i closes: retryStrategy(++retryAttempts) gives the
    \* wait before the next attempt, or ends the object; the connect() of
    \* getRedisClient() rejects on the first close (redisClient = null)
    \/ \E i \in DOMAIN objs :
          /\ ~redisUp /\ objs[i].status \in {"connecting", "ready"}
          /\ LET delay == retryStrategy(objs[i].retryAttempts + 1)
             IN objs' = [objs EXCEPT ![i] =
                           IF delay = -1 THEN [@ EXCEPT !.status = "end", !.delay = 0]
                           ELSE [status |-> "reconnecting",
                                 retryAttempts |-> @.retryAttempts + 1, delay |-> delay]]
          /\ ref' = IF ref = i /\ objs[i].status = "connecting" /\ objs[i].retryAttempts = 0
                    THEN 0 ELSE ref
          /\ UNCHANGED connVars /\ UNCHANGED <<rlVars, now, keyVars, cacheVars, rq, inv, gcl>>
    \* the wait is over: object i makes its next attempt
    \/ \E i \in DOMAIN objs :
          /\ objs[i].status = "reconnecting"
          /\ objs' = [objs EXCEPT ![i].status = "connecting"]
          /\ UNCHANGED <<connVars, ref>> /\ UNCHANGED <<rlVars, now, keyVars, cacheVars, rq, inv, gcl>>
RetrySpec == RetryInit /\ [][RetryNext]_vars

\* ------------------------------------------------------------ claims
\* C1: with the store available and no expiry in between, the k-th
\* sequential rateLimit() call for one identity returns count = k,
\* allowed = (k <= limit) and remaining = max(0, limit - k).
C1_SequentialCount ==
    \A p \in Procs :
        (rpc[p] = "done" /\ rclean[p]) =>
            /\ rres[p].count = rord[p]
            /\ rres[p].allowed = (rord[p] <= limit)
            /\ rres[p].remaining = Max(0, limit - rord[p])
            /\ rres[p].limit = limit
\* The call after the limit was reached, in a sequential fault-free run, is rejected.
C1_Witness ==
    \E p \in Procs :
        /\ rpc[p] = "done" /\ rclean[p]
        /\ rord[p] = limit + 1 /\ ~rres[p].allowed /\ rres[p].remaining = 0

\* C2: a rateLimit() call that meets an unavailable store returns
\* {allowed: true, count: 0, remaining: limit, resetTime: window}, whatever
\* the earlier calls of the identity returned, and has no throwing exit.
C2_FailOpen ==
    \A p \in Procs :
        /\ rpc[p] \in {"idle", "probe", "client", "exec", "done"}
        /\ (rpc[p] = "done" /\ rfault[p]) =>
              /\ rres[p].allowed
              /\ rres[p].count = 0
              /\ rres[p].remaining = limit
              /\ rres[p].resetTime = window
              /\ rres[p].limit = limit
\* A call fails open while the identity's counter is above the limit.
C2_Witness ==
    \E p \in Procs :
        /\ rpc[p] = "done" /\ rfault[p]
        /\ rl[rip[p]].count > limit

\* C3: the batches of concurrent rateLimit() calls on one key execute one at
\* a time: the counts returned since the key was created are 1, 2, 3, ...
\* without duplicate or gap, and of any N consecutive batches that follow the
\* counter value c exactly max(0, min(N, limit - c)) are allowed.
C3_AtomicBatches ==
    \A i \in Identities :
        /\ Len(log[i]) = rl[i].count
        /\ \A k \in 1..Len(log[i]) : log[i][k].count = k
        /\ \A c \in 0..Len(log[i]) : \A n \in 0..(Len(log[i]) - c) :
              Cardinality({k \in (c + 1)..(c + n) : log[i][k].allowed})
                  = Max(0, Min(n, limit - c))
\* A call that started later has completed its batch while an earlier call of
\* the same identity is still in flight.
C3_Witness ==
    \E p \in Procs, q \in Procs :
        /\ p # q /\ rip[p] = rip[q]
        /\ rpc[p] = "exec" /\ rpc[q] = "done" /\ ~rfault[q]
        /\ rord[q] > rord[p] /\ rres[q].count >= 1

\* A withCache() call that has produced its result or its rejection.
Finished(p) == wc[p].pc \in {"done", "threw"}

\* C4: when the store is unavailable, withCache() performs no read or write
\* on the store, invokes the compute function exactly once, and returns
\* hit=false with exactly the value compute produced.
C4_UnavailableOnce ==
    \A p \in DOMAIN wc :
        (Finished(p) /\ wc[p].unavail) =>
            /\ wc[p].ops = 0
            /\ wc[p].n = 1
            /\ wc[p].pc = "done" => (~wc[p].hit /\ wc[p].val = wc[p].computed)

\* C5 as stated: a call that finds the entry an earlier call stored under
\* the same parameters in another order returns hit=true with exactly the
\* value the earlier call computed, and never invokes its own compute.
C5_ReorderedHitAlways ==
    \A p \in DOMAIN wc :
        (Finished(p) /\ wc[p].prior # VNone) =>
            /\ wc[p].pc = "done" /\ wc[p].hit
            /\ wc[p].val = wc[p].prior
            /\ wc[p].n = 0

\* C5 (amended): when the parameters are ones JSON.stringify accepts, a call
\* that reads the store while it holds the entry an earlier call stored under
\* the same parameters in another order returns hit=true with the JSON round
\* trip of the value the earlier call computed, and never invokes its own
\* compute.
C5_ReorderedHit ==
    \A p \in DOMAIN wc :
        (Finished(p) /\ wc[p].prior # VNone /\ ~StringifyThrows(wc[p].ps)) =>
            /\ wc[p].pc = "done" /\ wc[p].hit
            /\ wc[p].val = JSONParse(JSONStringify(wc[p].prior))
            /\ wc[p].n = 0

C5_Witness ==
    \E p \in DOMAIN wc :
        /\ wc[p].pc = "done" /\ wc[p].hit /\ wc[p].n = 0
        /\ wc[p].prior = VDate
        /\ wc[p].val = [t |-> "str", v |-> "D"]
        /\ ~StringifyThrows(wc[p].ps)

\* C6: one withCache() call invokes the compute function at most once:
\* exactly once on a miss or on any store failure, never on a hit.
C6_ComputeAtMostOnce ==
    \A p \in DOMAIN wc :
        Finished(p) => wc[p].n = (IF wc[p].pc = "done" /\ wc[p].hit THEN 0 ELSE 1)

\* C7: if the compute function throws, withCache() fails with that same
\* error and writes nothing to the store.
C7_ComputeErrorPropagates ==
    \A p \in DOMAIN wc :
        (Finished(p) /\ wc[p].threw # 0) =>
            /\ wc[p].pc = "threw"
            /\ wc[p].err = wc[p].threw
            /\ ~wc[p].wrote

C9_KeyOrderAlways ==
    (kpc = "done" /\ kRel = "reordered") => kKey1 = kKey2
\* C9 (amended): they derive the same cache key whenever JSON.stringify
\* accepts the entries that are kept, or the clock reads the same at both
\* derivations.
C9_KeyOrder ==
    (kpc = "done" /\ kRel = "reordered" /\ (~StringifyThrows(kP1) \/ kT1 = now))
        => kKey1 = kKey2
\* Two kept entries handed over in two different orders, at different
\* times, gave one key.
C9_Witness ==
    /\ kpc = "done" /\ kRel = "reordered"
    /\ \A i \in 1..Len(kP1) : kP1[i].val.t = "str"
    /\ ObjectKeys(kP1) # ObjectKeys(kP2)
    /\ kT1 # now
    /\ kKey1 = kKey2

\* C10: two parameter sets that differ only by an extra entry whose value is
\* undefined, a function or a symbol derive the same cache key (stated for
\* two derivations that read the same clock value).
C10_DroppedEntriesIgnored ==
    (kpc = "done" /\ kRel = "extra" /\ kT1 = now) => kKey1 = kKey2

\* The length of a key generateCacheKey() builds for "journeys": the prefix,
\* the name, a colon and the 8 characters of the hash.
HashedKeyLen == Len(StrBetterbahn) + Len(StrJourneys) + 1 + 8

\* C11 (as stated): the hash part of a derived key has 8 characters, and two
\* withCache() calls made at different times with the same name, keyPrefix
\* and params always derive the same key.
C11_DeterministicAlways ==
    (kpc = "done" /\ kRel = "same") =>
        /\ kKey1 = kKey2
        /\ Len(ObjectKeys(kP1)) > 0 => Len(kKey1) = HashedKeyLen
\* C11 (amended): the hash part of a derived key always has 8 characters, and
\* two withCache() calls with the same name, keyPrefix and params derive the
\* same key whenever JSON.stringify accepts the kept entries or the clock
\* reads the same at both derivations.
C11_Deterministic ==
    (kpc = "done" /\ kRel = "same") =>
        /\ (~StringifyThrows(kP1) \/ kT1 = now) => kKey1 = kKey2
        /\ Len(ObjectKeys(kP1)) > 0 =>
              (Len(kKey1) = HashedKeyLen /\ Len(kKey2) = HashedKeyLen)
\* The same kept entries, handed over at two different times, gave one key
\* with an 8-character hash.
C11_Witness ==
    /\ kpc = "done" /\ kRel = "same"
    /\ Len(kP1) > 0 /\ \A i \in 1..Len(kP1) : kP1[i].val.t = "str"
    /\ kT1 # now
    /\ kKey1 = kKey2 /\ Len(kKey1) = HashedKeyLen

\* C12 (as stated): whenever the reply of the batch is malformed (the batch
\* throws, resolves to null, has fewer or more than three entries, or has an
\* entry carrying a per-command error), rateLimit() returns the fail-open
\* result; a store fault never gives allowed = FALSE.
C12_MalformedFailsOpen ==
    LET Malformed(reply) ==
            \/ reply.kind # "list"
            \/ Len(reply.rs) # 3
            \/ \E i \in 1..Len(reply.rs) : reply.rs[i].err
    IN (rq.pc = "checked" /\ Malformed(rq.reply)) =>
            rq.res = [allowed |-> TRUE, count |-> 0, limit |-> rq.lim,
                      resetTime |-> rq.win, remaining |-> rq.lim]

\* C13 (as stated): the identity is the first usable value (non-empty after
\* trimming) in the order cf-connecting-ip, true-client-ip, first entry of
\* x-forwarded-for, x-real-ip, else "unknown", with a leading "::ffff:"
\* stripped.
C13_StrictPriority ==
    rq.pc = "ip" =>
        LET Usable(hv) == hv.set /\ Trim(hv.v) # <<>>
            Stripped(s) ==
                IF Len(s) >= 7 /\ SubSeq(s, 1, 7) = <<58, 58, 102, 102, 102, 102, 58>>
                THEN SubSeq(s, 8, Len(s)) ELSE s
            h == rq.headers
            first == [set |-> h.xff.set, v |-> FirstEntry(h.xff.v)]
        IN rq.ip = IF Usable(h.cf) THEN Stripped(Trim(h.cf.v))
                   ELSE IF Usable(h.tci) THEN Stripped(Trim(h.tci.v))
                   ELSE IF Usable(first) THEN Stripped(Trim(first.v))
                   ELSE IF Usable(h.xri) THEN Stripped(Trim(h.xri.v))
                   ELSE <<117, 110, 107, 110, 111, 119, 110>>

\* C14 (as stated): the handler is never invoked before the result of
\* rateLimit() is there, and a rejected request is answered without invoking
\* it, with status 429, the body {error, limit, remaining, resetTime} and
\* the headers X-RateLimit-Limit, X-RateLimit-Remaining, X-RateLimit-Reset
\* and Retry-After.
C14_RejectedUnhandled ==
    /\ rq.pc \in {"ip", "limit", "checked"} => rq.calls = 0
    /\ (rq.pc \in {"done", "threw"} /\ ~rq.res.allowed) =>
          /\ rq.calls = 0 /\ rq.pc = "done"
          /\ rq.resp.status = 429
          /\ rq.resp.body = [error |-> "Rate limit exceeded", limit |-> rq.res.limit,
                             remaining |-> rq.res.remaining,
                             resetTime |-> rq.res.resetTime]
          /\ DOMAIN rq.resp.headers = {"X-RateLimit-Limit", "X-RateLimit-Remaining",
                                       "X-RateLimit-Reset", "Retry-After"}
          /\ rq.resp.headers["X-RateLimit-Limit"] = rq.res.limit
          /\ rq.resp.headers["X-RateLimit-Remaining"] = rq.res.remaining
          /\ rq.resp.headers["X-RateLimit-Reset"] = rq.res.resetTime
          /\ rq.resp.headers["Retry-After"] = rq.res.resetTime

\* C15 (as stated): an allowed request through withRateLimit is answered with
\* the handler's response, status and body unchanged; a response with status
\* below 400 carries the three rate-limit headers of the result, and an error
\* response is passed on untouched.
C15_AllowedPassThrough ==
    (rq.pc = "done" /\ rq.kind = "wrap" /\ rq.res.allowed) =>
        /\ rq.resp.status = rq.last.status /\ rq.resp.body = rq.last.body
        /\ rq.resp.status < 400 =>
              /\ DOMAIN rq.resp.headers = {"X-RateLimit-Limit", "X-RateLimit-Remaining",
                                           "X-RateLimit-Reset"}
              /\ rq.resp.headers["X-RateLimit-Limit"] = rq.res.limit
              /\ rq.resp.headers["X-RateLimit-Remaining"] = rq.res.remaining
              /\ rq.resp.headers["X-RateLimit-Reset"] = rq.res.resetTime
        /\ rq.resp.status >= 400 => rq.resp = rq.last

\* C16 (as stated): a call of invalidateCache(pattern) that met no store
\* fault has removed exactly the keys matching the pattern, left the others
\* in place, and returns the number of keys it removed, also when the scan
\* reported keys more than once; a call that found the store unavailable or
\* met a store error has removed nothing and returns 0.
C16_InvalidateAlways ==
    (inv.op = "invalidate" /\ inv.pc = "done") =>
        LET n == Len(inv.pattern) - 1
            matching == {k \in inv.before :
                            Len(k) >= n /\ SubSeq(k, 1, n) = SubSeq(inv.pattern, 1, n)}
        IN IF inv.fault = "none"
           THEN inv.store = inv.before \ matching /\ inv.ret = Cardinality(matching)
           ELSE inv.store = inv.before /\ inv.ret = 0

\* C16: as above, except that a call whose delete command was executed while
\* its answer was lost returns 0 with the matching keys removed.
C16_Invalidate ==
    (inv.op = "invalidate" /\ inv.pc = "done") =>
        LET n == Len(inv.pattern) - 1
            matching == {k \in inv.before :
                            Len(k) >= n /\ SubSeq(k, 1, n) = SubSeq(inv.pattern, 1, n)}
        IN /\ inv.store = IF inv.fault \in {"none", "lost"}
                          THEN inv.before \ matching ELSE inv.before
           /\ inv.ret = IF inv.fault = "none" THEN Cardinality(matching) ELSE 0
C16_Witness ==
    /\ inv.op = "invalidate" /\ inv.pc = "done" /\ inv.fault = "none" /\ inv.ret = 2
    /\ inv.keys[<<97, 49>>] > 1
    /\ <<98, 49>> \in inv.store

\* C17: while the store address is unset no client object is ever created,
\* every getRedisClient() call fails with the configuration error, every
\* withCache() call that returns gives hit = false with the value its compute
\* produced (it fails only with compute's own error), and every rateLimit()
\* call returns the fail-open result; no call ever reaches the store.
C17_UnsetAddressDegraded ==
    ~redisUrl =>
        /\ objs = <<>> /\ ref = 0
        /\ \A p \in DOMAIN gcl :
              /\ gcl[p].pc \notin {"connecting", "quitting", "ping"}
              /\ gcl[p].ret # "store"
              /\ gcl[p].pc = "done" =>
                    /\ gcl[p].op = "get" => (gcl[p].err = "config" /\ gcl[p].out = 0)
                    /\ gcl[p].op = "withCache" =>
                          \/ gcl[p].ret = "miss" /\ gcl[p].data = gcl[p].computed
                                /\ gcl[p].data \in {1, 2}
                          \/ gcl[p].ret = "none" /\ gcl[p].err = "compute" /\ gcl[p].n = 2
                    /\ gcl[p].op = "rateLimit" => gcl[p].ret = "failopen"
C17_Witness ==
    /\ ~redisUrl /\ redisUp
    /\ gcl["g1"].pc = "done" /\ gcl["g1"].op = "withCache" /\ gcl["g1"].ret = "miss"
    /\ gcl["g1"].data = 2
    /\ gcl["g2"].pc = "done" /\ gcl["g2"].op = "rateLimit" /\ gcl["g2"].ret = "failopen"

\* C18 (as stated): a getRedisClient() call either returns a handle or fails
\* with the configuration error, and it fails only when the store address is
\* unset.
C18_ReadyOrConfigError ==
    \A p \in DOMAIN gcl :
        (gcl[p].pc = "done" /\ gcl[p].op = "get") =>
            IF gcl[p].err = "none" THEN gcl[p].out # 0
            ELSE gcl[p].err = "config" /\ ~redisUrl

\* C19 (as stated): at the step in which a closeRedisClient() call returns,
\* whatever the state it was called in, the module-level handle is null and
\* no client object is left connecting, ready or reconnecting.
C19_CloseReleases ==
    [][\A p \in DOMAIN gcl :
          (gcl[p].pc # "done" /\ gcl'[p].pc = "done" /\ gcl'[p].op = "close") =>
              (ref' = 0 /\ \A i \in DOMAIN objs' : objs'[i] = "end")]_vars

\* C20 (as stated): in every reachable state at most one client object that
\* getRedisClient() created has not ended.
C20_SingleClient ==
    Cardinality({i \in DOMAIN objs : objs[i] # "end"}) <= 1

\* C21: every rateLimit() call whose batch executed leaves the record with
\* the full window as expiry and returns resetTime = window; the expiry only
\* counts down one second at a time, and a record is removed only when its
\* last second passes, so only after window seconds without a call; the call
\* that finds no record returns count = 1.
C21_WindowRenewed ==
    [][/\ \A i \in Identities :
             /\ rl'[i].count > rl[i].count => rl'[i].ttl = window
             /\ (rl[i].count > 0 /\ rl'[i].count = rl[i].count) =>
                    rl'[i].ttl \in {rl[i].ttl, rl[i].ttl - 1}
             /\ (rl[i].count > 0 /\ rl'[i].count < rl[i].count) =>
                    (rl[i].ttl = 1 /\ rl'[i].count = 0)
       /\ \A p \in Procs :
             (rpc[p] = "exec" /\ rpc'[p] = "done" /\ ~rfault'[p]) =>
                 /\ rres'[p].resetTime = window
                 /\ rl[rip[p]].count = 0 => rres'[p].count = 1]_vars
\* A call returned count = 2, the record expired, and the next call got 1.
C21_Witness ==
    /\ rpc["r1"] = "done" /\ ~rfault["r1"] /\ rres["r1"].count = 2
    /\ rpc["r2"] = "done" /\ ~rfault["r2"] /\ rres["r2"].count = 1
    /\ rl["1.2.3.4"] = [count |-> 1, ttl |-> window] /\ window = MaxWindow

\* C22: in one run of an identity's counter (no expiry in between), a call
\* that follows a rejected call is rejected too, with the count one higher
\* and the expiry back at the full window.
C22_RejectedStayRejected ==
    \A i \in Identities : \A k \in 1..(Len(log[i]) - 1) :
        ~log[i][k].allowed =>
            /\ ~log[i][k + 1].allowed
            /\ log[i][k + 1].count = log[i][k].count + 1
            /\ log[i][k + 1].resetTime = window
            /\ log[i][k + 1].remaining = 0
\* Two calls in a row were rejected, the second when the window had already
\* begun to run down.
C22_Witness ==
    /\ limit = 1 /\ window = MaxWindow
    /\ Len(log["1.2.3.4"]) = 3
    /\ ~log["1.2.3.4"][2].allowed /\ ~log["1.2.3.4"][3].allowed
    /\ rl["1.2.3.4"] = [count |-> 3, ttl |-> 1]

\* C29: every rate-limit record in the store carries an expiry between 1 and
\* window seconds.
C29_RecordsExpire ==
    \A i \in Identities :
        rl[i].count > 0 => (rl[i].ttl >= 1 /\ rl[i].ttl <= window)
\* A record incremented by two concurrent callers, its window running down.
C29_Witness ==
    /\ rl["1.2.3.4"].count = 2 /\ rl["1.2.3.4"].ttl = 1 /\ window = MaxWindow
    /\ rpc["r1"] = "done" /\ rpc["r2"] = "done"
    /\ ~rfault["r1"] /\ ~rfault["r2"]

\* C30 (as stated): every result of rateLimit(), for a reply whose TTL entry
\* does not exceed the window just set: allowed is true exactly when
\* count <= limit, remaining = max(0, limit - count) lies in 0..limit, a
\* rejected result has remaining = 0, and 1 <= resetTime <= window.  (An
\* undefined count and a NaN are written -1; a comparison with an undefined
\* count is false.)
C30_ResultConsistent ==
    (/\ rq.pc = "checked"
     /\ rq.reply.kind = "list" =>
           \A k \in 1..Len(rq.reply.rs) : rq.reply.rs[k].val <= rq.win) =>
        LET r == rq.res
        IN /\ r.allowed = (r.count # -1 /\ r.count <= r.limit)
           /\ r.remaining = (IF r.limit - r.count > 0 THEN r.limit - r.count ELSE 0)
           /\ r.remaining >= 0 /\ r.remaining <= r.limit
           /\ ~r.allowed => r.remaining = 0
           /\ r.resetTime >= 1 /\ r.resetTime <= rq.win

C25_WrittenOnlyByMiss ==
    /\ [](\A k \in DOMAIN cache : cache[k].ttl >= 1 /\ cache[k].ttl <= cfg.ttl)
    /\ [][/\ \A p \in CProcs :
                /\ (wc[p].pc = "get" /\ wc'[p].pc = "done" /\ wc'[p].hit) => cache' = cache
                /\ (wc[p].pc = "get" /\ wc'[p].pc # "get" /\ CommandOk
                      /\ wc[p].key \notin DOMAIN cache) =>
                       (wc'[p].pc = "fetch" /\ ~wc'[p].hit)
          /\ \A k \in DOMAIN cache' :
                (\/ k \notin DOMAIN cache
                 \/ cache'[k].ttl > cache[k].ttl
                 \/ cache'[k].text # cache[k].text /\ cache'[k].by # VExt) =>
                    \E p \in CProcs :
                        /\ wc[p].pc = "set" /\ wc'[p].pc = "done" /\ wc[p].key = k
                        /\ ~wc'[p].hit /\ wc'[p].n = 1
                        /\ cache'[k].ttl = cfg.ttl
                        /\ cache'[k].text = JSONStringify(wc[p].computed)
          /\ now' = now + 1 =>
                \A k \in DOMAIN cache :
                    IF cache[k].ttl > 1
                    THEN k \in DOMAIN cache' /\ cache'[k].ttl = cache[k].ttl - 1
                    ELSE k \notin DOMAIN cache']_vars
\* A hit served in the last second of an entry stored with two seconds.
C25_Witness ==
    /\ wc["w1"].pc = "done" /\ wc["w1"].hit
    /\ cfg.ttl = 2 /\ now = 1
    /\ wc["w1"].key \in DOMAIN cache /\ cache[wc["w1"].key].ttl = 1
    /\ wc["w1"].val = JSONParse(cache[wc["w1"].key].text)

\* C28 (as stated): withRateLimit invokes the inner handler at most once per
\* request: not at all for a rejected request, once for an allowed one, and
\* a throw of the handler ends the request with that error.
C28_HandlerAtMostOnce ==
    rq.kind = "wrap" =>
        /\ rq.calls <= 1
        /\ rq.pc \in {"done", "threw"} =>
              rq.calls = (IF rq.res.allowed THEN 1 ELSE 0)
        /\ rq.pc = "catch" => rq.last # Thrown

\* C23 (as stated): when two withCache() calls have both missed on the same
\* key, each has invoked its compute exactly once and returns the value of
\* its own compute with hit = false, and the entry of the key, when there is
\* one, holds the text of one of the two values.
C23_NoSingleFlight ==
    (/\ \A p \in DOMAIN wc : Finished(p) /\ ~wc[p].hit
     /\ wc["w1"].key = wc["w2"].key) =>
        /\ \A p \in DOMAIN wc :
              wc[p].pc = "done" /\ wc[p].n = 1 /\ wc[p].val = wc[p].computed
        /\ wc["w1"].key \in DOMAIN cache =>
              cache[wc["w1"].key].text \in
                  {JSONStringify(wc["w1"].val), JSONStringify(wc["w2"].val)}

C27_ReconnectPolicy ==
    /\ [](\A i \in DOMAIN objs :
             /\ objs[i].retryAttempts \in 0..10
             /\ objs[i].status = "reconnecting" =>
                   \E a \in 1..10 :
                      /\ objs[i].retryAttempts = a
                      /\ objs[i].delay \in {2 ^ a * 100, 5000}
                      /\ objs[i].delay <= 2 ^ a * 100 /\ objs[i].delay <= 5000)
    /\ [][/\ Len(objs') > Len(objs) =>
                objs'[Len(objs')] = [status |-> "connecting", retryAttempts |-> 0, delay |-> 0]
          /\ \A i \in DOMAIN objs :
                /\ (objs[i].delay > 0 /\ objs'[i].delay > 0) => objs'[i].delay >= objs[i].delay
                /\ (objs[i].status # "end" /\ objs'[i].status = "end") =>
                      objs[i].retryAttempts = 10
                /\ objs[i].status = "end" => objs'[i] = objs[i]]_vars
C27_Witness ==
    /\ Len(objs) = 2
    /\ objs[1].status = "end" /\ objs[1].retryAttempts = 10
    /\ objs[2].status = "reconnecting" /\ objs[2].retryAttempts = 6 /\ objs[2].delay = 5000

====
